---- MODULE Spec2Model ----
(***************************************************************************)
(* Model of Random-tvshows.py: the ShowSelector engine (add_show,          *)
(* select_show, undo_last, save_progress, load_progress) and the two files *)
(* it owns (tv_show_progress.json and tv_show_progress.bak).               *)
(*                                                                         *)
(* Python values are tagged records [t |-> type, v |-> payload]; JSON      *)
(* documents are tagged records with the JSON type names, so json.dump and *)
(* json.load are real conversions between two representations.  Strings    *)
(* are TLA+ strings; str.lower, str.strip and the substring test are       *)
(* computed character by character.  The result of str.lower, which the    *)
(* program only compares, is a sequence of characters, since it can hold   *)
(* characters that no string constant holds.                               *)
(***************************************************************************)
EXTENDS Integers, Sequences, FiniteSets, TLC

(***************************************************************************)
(* Bounds of the model.                                                    *)
(***************************************************************************)
\* cap on len(original_order) for a successful add_show
MaxShows == 3
\* longest seed list handed to the constructor
MaxSeedLen == 2

(***************************************************************************)
(* str methods used by the program.  A Python str is a sequence of        *)
(* Unicode characters; a string here is a sequence of 16-bit units, one    *)
(* per character up to U+FFFF and a pair of surrogates per character       *)
(* above.  A string constant holds the characters U+0000-U+00FF, the       *)
(* characters up to U+FFFF whose code ends in a byte 80-FF, and those      *)
(* above U+FFFF whose two surrogates both end in such a byte; the tables   *)
(* below list, among these characters, the ones the methods treat          *)
(* specially.                                                              *)
(***************************************************************************)
\* the characters of a table
CharSet(t) == {SubSeq(t, i, i) : i \in 1..Len(t)}

\* the characters c with c.lower() # c whose lower-case form a string
\* constant holds, and at the same position c.lower()
UpperLetters ==
    "ABCDEFGHIJKLMNOPQRSTUVWXYZÀÁÂÃÄÅÆÇÈÉÊËÌÍÎÏÐÑÒÓÔÕÖØÙÚÛÜÝÞ" \o
    "ƂƄƇƋƎƑƘƠƢƤƦƧƩƬƮƯƱƲƳƵƷƸƼǄǅǇǈǊǋǍǏǑǓǕǗǙǛǞǠǢǤǦǨǪǬǮǱǲǴǶǷǸǺǼǾΆ" \o
    "ΈΉΊΌΎΏΑΒΓΔΕΖΗΘΙΚΛΜΝΞΟΠΡΣΤΥΦΧΨΩΪΫϏϘϚϜϞϠϢϤϦϨϪϬϮϴϷϹϺҀҊҌҎҐҒҔ" \o
    "ҖҘҚҜҞҠҢҤҦҨҪҬҮҰҲҴҶҸҺҼҾӀӁӃӅӇӉӋӍӐӒӔӖӘӚӜӞӠӢӤӦӨӪӬӮӰӲӴӶӸӺӼӾᎰᎱᎲ" \o
    "ᎳᎴᎵᎶᎷᎸᎹᎺᎻᎼᎽᎾᎿᏀᏁᏂᏃᏄᏅᏆᏇᏈᏉᏊᏋᏌᏍᏎᏏᏐᏑᏒᏓᏔᏕᏖᏗᏘᏙᏚᏛᏜᏝᏞᏟᏠᏡᏢᏣᏤᏥᏦᏧᏨᏩᏪ" \o
    "ᏫᏬᏭᏮᏯᏰᏱᏲᏳᏴᏵᲐᲑᲒᲓᲔᲕᲖᲗᲘᲙᲚᲛᲜᲝᲞᲟᲠᲡᲢᲣᲤᲥᲦᲧᲨᲩᲪᲫᲬᲭᲮᲯᲰᲱᲲᲳᲴᲵᲶᲷᲸᲹᲺᲽᲾ" \o
    "ᲿẀẂẄẆẈẊẌẎẐẒẔẞẠẢẤẦẨẪẬẮẰẲẴẶẸẺẼẾỀỂỄỆỈỊỌỎỐỒỔỖỘỚỜỞỠỢỤỦỨỪỬỮỰỲỴ" \o
    "ỶỸỺỼỾᾈᾉᾊᾋᾌᾍᾎᾏᾘᾙᾚᾛᾜᾝᾞᾟᾨᾩᾪᾫᾬᾭᾮᾯᾸᾹᾼῌῘῙῨῩῬῼↃⒶⒷⒸⒹⒺⒻⒼⒽⒾⒿⓀⓁⓂⓃⓄⓅ" \o
    "ⓆⓇⓈⓉⓊⓋⓌⓍⓎⓏⲀⲂⲄⲆⲈⲊⲌⲎⲐⲒⲔⲖⲘⲚⲜⲞⲠⲢⲤⲦⲨⲪⲬⲮⲰⲲⲴⲶⲸⲺⲼⲾⳀⳂⳄⳆⳈⳊⳌⳎⳐⳒⳔⳖⳘⳚ" \o
    "ⳜⳞⳠⳢⳫⳭⳲꚀꚂꚄꚆꚈꚊꚌꚎꚐꚒꚔꚖꚘꚚꞀꞂꞄꞆꞋꞐꞒꞖꞘꞚꞜꞞꞠꞢꞤꞦꞨꞰꞱꞲꞴꞶꞸꞺꞼꞾꟀꟂꟄꟅꟆꟇꟉꟐꟖ" \o
    "ꟘꟵ"
LowerLetters ==
    "abcdefghijklmnopqrstuvwxyzàáâãäåæçèéêëìíîïðñòóôõöøùúûüýþ" \o
    "ƃƅƈƌǝƒƙơƣƥʀƨʃƭʈưʊʋƴƶʒƹƽǆǆǉǉǌǌǎǐǒǔǖǘǚǜǟǡǣǥǧǩǫǭǯǳǳǵƕƿǹǻǽǿά" \o
    "έήίόύώαβγδεζηθικλμνξοπρστυφχψωϊϋϗϙϛϝϟϡϣϥϧϩϫϭϯθϸϲϻҁҋҍҏґғҕ" \o
    "җҙқҝҟҡңҥҧҩҫҭүұҳҵҷҹһҽҿӏӂӄӆӈӊӌӎӑӓӕӗәӛӝӟӡӣӥӧөӫӭӯӱӳӵӷӹӻӽӿꮀꮁꮂ" \o
    "ꮃꮄꮅꮆꮇꮈꮉꮊꮋꮌꮍꮎꮏꮐꮑꮒꮓꮔꮕꮖꮗꮘꮙꮚꮛꮜꮝꮞꮟꮠꮡꮢꮣꮤꮥꮦꮧꮨꮩꮪꮫꮬꮭꮮꮯꮰꮱꮲꮳꮴꮵꮶꮷꮸꮹꮺ" \o
    "ꮻꮼꮽꮾꮿᏸᏹᏺᏻᏼᏽაბგდევზთიკლმნოპჟრსტუფქღყშჩცძწჭხჯჰჱჲჳჴჵჶჷჸჹჺჽჾ" \o
    "ჿẁẃẅẇẉẋẍẏẑẓẕßạảấầẩẫậắằẳẵặẹẻẽếềểễệỉịọỏốồổỗộớờởỡợụủứừửữựỳỵ" \o
    "ỷỹỻỽỿᾀᾁᾂᾃᾄᾅᾆᾇᾐᾑᾒᾓᾔᾕᾖᾗᾠᾡᾢᾣᾤᾥᾦᾧᾰᾱᾳῃῐῑῠῡῥῳↄⓐⓑⓒⓓⓔⓕⓖⓗⓘⓙⓚⓛⓜⓝⓞⓟ" \o
    "ⓠⓡⓢⓣⓤⓥⓦⓧⓨⓩⲁⲃⲅⲇⲉⲋⲍⲏⲑⲓⲕⲗⲙⲛⲝⲟⲡⲣⲥⲧⲩⲫⲭⲯⲱⲳⲵⲷⲹⲻⲽⲿⳁⳃⳅⳇⳉⳋⳍⳏⳑⳓⳕⳗⳙⳛ" \o
    "ⳝⳟⳡⳣⳬⳮⳳꚁꚃꚅꚇꚉꚋꚍꚏꚑꚓꚕꚗꚙꚛꞁꞃꞅꞇꞌꞑꞓꞗꞙꞛꞝꞟꞡꞣꞥꞧꞩʞʇʝꞵꞷꞹꞻꞽꞿꟁꟃꞔʂᶎꟈꟊꟑꟗ" \o
    "ꟙꟶ"

\* c.lower() for the characters of UpperLetters
LowerOf ==
    [c \in CharSet(UpperLetters) |->
        LET i == CHOOSE j \in 1..Len(UpperLetters) : SubSeq(UpperLetters, j, j) = c
        IN  SubSeq(LowerLetters, i, i)]

\* the other characters c with c.lower() # c (U+0181, U+10A0, ...): no string
\* constant holds their lower-case form; ord(c.lower()) for each
LowerOrd ==
    LET t == "ƁƆƉƊƏƐƓƔƖƗƜƝƟϽϾϿႠႡႢႣႤႥႦႧႨႩႪႫႬႭႮႯႰႱႲႳႴႵႶႷႸႹႺႻႼႽႾ" \o
             "ႿჀჁჂჃჄჅჇჍᎠᎡᎢᎣᎤᎥᎦᎧᎨᎩᎪᎫᎬᎭᎮᎯᾺΆῈΈῊΉῚΊῪΎῸΌῺΏꞍꞪꞫꞬꞭꞮꞳ"
        n == <<
               595, 596, 598, 599, 601, 603, 608, 611, 617, 616, 623, 626,
               629, 891, 892, 893, 11520, 11521, 11522, 11523, 11524,
               11525, 11526, 11527, 11528, 11529, 11530, 11531, 11532,
               11533, 11534, 11535, 11536, 11537, 11538, 11539, 11540,
               11541, 11542, 11543, 11544, 11545, 11546, 11547, 11548,
               11549, 11550, 11551, 11552, 11553, 11554, 11555, 11556,
               11557, 11559, 11565, 43888, 43889, 43890, 43891, 43892,
               43893, 43894, 43895, 43896, 43897, 43898, 43899, 43900,
               43901, 43902, 43903, 8048, 8049, 8050, 8051, 8052, 8053,
               8054, 8055, 8058, 8059, 8056, 8057, 8060, 8061, 613, 614,
               604, 609, 620, 618, 43859>>
    IN  [c \in CharSet(t) |->
            n[CHOOSE j \in 1..Len(t) : SubSeq(t, j, j) = c]]

\* c.lower() for a str of one character, as a character of a lowered str:
\* [chr |-> x] is the character x, [ord |-> n] the character with code point n
\* that no string constant holds
LowerChar(c) ==
    IF c \in DOMAIN LowerOf THEN [chr |-> LowerOf[c]]
    ELSE IF c \in DOMAIN LowerOrd THEN [ord |-> LowerOrd[c]]
    ELSE [chr |-> c]

\* the cased characters: upper-case, lower-case and title-case letters
Cased ==
    CharSet("ABCDEFGHIJKLMNOPQRSTUVWXYZabcdefghijklmnopqrstuvwxyzªµºÀ" \o
            "ÁÂÃÄÅÆÇÈÉÊËÌÍÎÏÐÑÒÓÔÕÖØÙÚÛÜÝÞßàáâãäåæçèéêëìíîïðñòóôõöøùú" \o
            "ûüýþÿƀƁƂƃƄƅƆƇƈƉƊƋƌƍƎƏƐƑƒƓƔƕƖƗƘƙƚƛƜƝƞƟƠơƢƣƤƥƦƧƨƩƪƫƬƭƮƯưƱƲ" \o
            "ƳƴƵƶƷƸƹƺƼƽƾƿǄǅǆǇǈǉǊǋǌǍǎǏǐǑǒǓǔǕǖǗǘǙǚǛǜǝǞǟǠǡǢǣǤǥǦǧǨǩǪǫǬǭǮǯ" \o
            "ǰǱǲǳǴǵǶǷǸǹǺǻǼǽǾǿʀʁʂʃʄʅʆʇʈʉʊʋʌʍʎʏʐʑʒʓʕʖʗʘʙʚʛʜʝʞʟʠʡʢʣʤʥʦʧʨ" \o
            "ʩʪʫʬʭʮʯʰʱʲʳʴʵʶʷʸˀˁˠˡˢˣˤΆΈΉΊΌΎΏΐΑΒΓΔΕΖΗΘΙΚΛΜΝΞΟΠΡΣΤΥΦΧΨΩΪ" \o
            "ΫάέήίΰαβγδεζηθικλμνξοπρςστυφχψωϊϋόύώϏϐϑϒϓϔϕϖϗϘϙϚϛϜϝϞϟϠϡϢ" \o
            "ϣϤϥϦϧϨϩϪϫϬϭϮϯϰϱϲϳϴϵϷϸϹϺϻϼϽϾϿҀҁҊҋҌҍҎҏҐґҒғҔҕҖҗҘҙҚқҜҝҞҟҠҡҢң" \o
            "ҤҥҦҧҨҩҪҫҬҭҮүҰұҲҳҴҵҶҷҸҹҺһҼҽҾҿӀӁӂӃӄӅӆӇӈӉӊӋӌӍӎӏӐӑӒӓӔӕӖӗӘәӚӛ" \o
            "ӜӝӞӟӠӡӢӣӤӥӦӧӨөӪӫӬӭӮӯӰӱӲӳӴӵӶӷӸӹӺӻӼӽӾӿրցւփքօֆևֈႠႡႢႣႤႥႦႧႨႩႪ" \o
            "ႫႬႭႮႯႰႱႲႳႴႵႶႷႸႹႺႻႼႽႾႿჀჁჂჃჄჅჇჍაბგდევზთიკლმნოპჟრსტუფქღყშჩც" \o
            "ძწჭხჯჰჱჲჳჴჵჶჷჸჹჺჽჾჿᎠᎡᎢᎣᎤᎥᎦᎧᎨᎩᎪᎫᎬᎭᎮᎯᎰᎱᎲᎳᎴᎵᎶᎷᎸᎹᎺᎻᎼᎽᎾᎿᏀᏁᏂᏃᏄ" \o
            "ᏅᏆᏇᏈᏉᏊᏋᏌᏍᏎᏏᏐᏑᏒᏓᏔᏕᏖᏗᏘᏙᏚᏛᏜᏝᏞᏟᏠᏡᏢᏣᏤᏥᏦᏧᏨᏩᏪᏫᏬᏭᏮᏯᏰᏱᏲᏳᏴᏵᏸᏹᏺᏻᏼᏽᲀ" \o
            "ᲁᲂᲃᲄᲅᲆᲇᲈᲐᲑᲒᲓᲔᲕᲖᲗᲘᲙᲚᲛᲜᲝᲞᲟᲠᲡᲢᲣᲤᲥᲦᲧᲨᲩᲪᲫᲬᲭᲮᲯᲰᲱᲲᲳᲴᲵᲶᲷᲸᲹᲺᲽᲾᲿᶀᶁ" \o
            "ᶂᶃᶄᶅᶆᶇᶈᶉᶊᶋᶌᶍᶎᶏᶐᶑᶒᶓᶔᶕᶖᶗᶘᶙᶚᶛᶜᶝᶞᶟᶠᶡᶢᶣᶤᶥᶦᶧᶨᶩᶪᶫᶬᶭᶮᶯᶰᶱᶲᶳᶴᶵᶶᶷᶸᶹ" \o
            "ᶺᶻᶼᶽᶾᶿẀẁẂẃẄẅẆẇẈẉẊẋẌẍẎẏẐẑẒẓẔẕẖẗẘẙẚẛẜẝẞẟẠạẢảẤấẦầẨẩẪẫẬậẮắẰằ" \o
            "ẲẳẴẵẶặẸẹẺẻẼẽẾếỀềỂểỄễỆệỈỉỊịỌọỎỏỐốỒồỔổỖỗỘộỚớỜờỞởỠỡỢợỤụỦủỨứ" \o
            "ỪừỬửỮữỰựỲỳỴỵỶỷỸỹỺỻỼỽỾỿᾀᾁᾂᾃᾄᾅᾆᾇᾈᾉᾊᾋᾌᾍᾎᾏᾐᾑᾒᾓᾔᾕᾖᾗᾘᾙᾚᾛᾜᾝᾞᾟᾠᾡ" \o
            "ᾢᾣᾤᾥᾦᾧᾨᾩᾪᾫᾬᾭᾮᾯᾰᾱᾲᾳᾴᾶᾷᾸᾹᾺΆᾼιῂῃῄῆῇῈΈῊΉῌῐῑῒΐῖῗῘῙῚΊῠῡῢΰῤῥῦῧῨ" \o
            "ῩῪΎῬῲῳῴῶῷῸΌῺΏῼₐₑₒₓₔₕₖₗₘₙₚₛₜↃↄⒶⒷⒸⒹⒺⒻⒼⒽⒾⒿⓀⓁⓂⓃⓄⓅⓆⓇⓈⓉⓊⓋⓌⓍⓎⓏⓐ" \o
            "ⓑⓒⓓⓔⓕⓖⓗⓘⓙⓚⓛⓜⓝⓞⓟⓠⓡⓢⓣⓤⓥⓦⓧⓨⓩⲀⲁⲂⲃⲄⲅⲆⲇⲈⲉⲊⲋⲌⲍⲎⲏⲐⲑⲒⲓⲔⲕⲖⲗⲘⲙⲚⲛⲜⲝⲞ" \o
            "ⲟⲠⲡⲢⲣⲤⲥⲦⲧⲨⲩⲪⲫⲬⲭⲮⲯⲰⲱⲲⲳⲴⲵⲶⲷⲸⲹⲺⲻⲼⲽⲾⲿⳀⳁⳂⳃⳄⳅⳆⳇⳈⳉⳊⳋⳌⳍⳎⳏⳐⳑⳒⳓⳔⳕⳖ" \o
            "ⳗⳘⳙⳚⳛⳜⳝⳞⳟⳠⳡⳢⳣⳤⳫⳬⳭⳮⳲⳳꚀꚁꚂꚃꚄꚅꚆꚇꚈꚉꚊꚋꚌꚍꚎꚏꚐꚑꚒꚓꚔꚕꚖꚗꚘꚙꚚꚛꚜꚝꞀꞁꞂꞃꞄꞅ" \o
            "ꞆꞇꞋꞌꞍꞎꞐꞑꞒꞓꞔꞕꞖꞗꞘꞙꞚꞛꞜꞝꞞꞟꞠꞡꞢꞣꞤꞥꞦꞧꞨꞩꞪꞫꞬꞭꞮꞯꞰꞱꞲꞳꞴꞵꞶꞷꞸꞹꞺꞻꞼꞽꞾꞿꟀꟁ" \o
            "ꟂꟃꟄꟅꟆꟇꟈꟉꟊꟐꟑꟓꟕꟖꟗꟘꟙꟵꟶꟸꟹꟺꮀꮁꮂꮃꮄꮅꮆꮇꮈꮉꮊꮋꮌꮍꮎꮏꮐꮑꮒꮓꮔꮕꮖꮗꮘꮙꮚꮛꮜꮝꮞꮟꮠꮡ" \o
            "ꮢꮣꮤꮥꮦꮧꮨꮩꮪꮫꮬꮭꮮꮯꮰꮱꮲꮳꮴꮵꮶꮷꮸꮹꮺꮻꮼꮽꮾꮿ")

\* the case-ignorable characters: marks, modifiers, format characters and
\* the punctuation that may stand inside a word
CaseIgnorable ==
    CharSet(".:^`'¨­¯´·¸ʰʱʲʳʴʵʶʷʸʹʺʻʼʽʾʿˀˁ˂˃˄˅ˆˇˈˉˊˋˌˍˎˏːˑ˒˓˔˕˖˗˘˙˚˛˜" \o
            "˝˞˟ˠˡˢˣˤ˥˦˧˨˩˪˫ˬ˭ˮ˯˰˱˲˳˴˵˶˷˸˹˺˻˼˽˾˿΄΅·҃҄҅҆҇҈҉֑֖֛֚֒֓֔֕֗֘֙" \o
            "ְֱֲֳִֵֶַָׇֹֺֻּֽֿׁׂ֢֣֤֥֦֧֪ׅ֭֮֜֝֞֟֠֡֨֩֫֬֯ׄ״ۖۗۘۙۚۛۜ۝ۣ۟۠ۡۢۤۥ" \o
            "ۦ۪ۭۧۨ۫۬ަާިީުޫެޭޮޯް߲߫߬߭߮߯߰߱߳ߴߵߺ߽࢈࢐࢑࢙࢚࢛࢘࢜࢝࢞࢟ࣉ࣏࣐࣑࣒࣓࣊࣋࣌࣍࣎ࣔࣕࣖ" \o
            "ࣗࣘࣙࣚࣛࣜࣝࣞࣟ࣠࣡࣢ࣰࣱࣲࣣࣦࣩ࣭࣮࣯ࣶࣹࣺࣤࣥࣧࣨ࣪࣫࣬ࣳࣴࣵࣷࣸࣻࣼࣽࣾࣿঁ়ুূৃৄ্ৢৣ৾ઁં઼ુૂ" \o
            "ૃૄૅેૈ્ૢૣૺૻૼ૽૾૿ஂீ்ಁ಼ಿೆೌ್ೢೣඁ්ිීුූັິີຶື຺ຸູົຼໆ່້໊໋໌ໍ྄ཱྀྀྂྃ྆྇ྍ" \o
            "ྎྏྐྑྒྒྷྔྕྖྗྙྚྛྜྜྷྞྟྠྡྡྷྣྤྥྦྦྷྨྩྪྫྫྷྭྮྯྰྱྲླྴྵྶྷྸྐྵྺྻྼ࿆ႂႅႆႍႝჼ឴឵ិ" \o
            "ីឹឺុូួំ៉៊់៌៍៎៏័៑្៓ៗ៝ᢅᢆᢩᪧ᪵᪶᪷᪸᪹᪺᪽᪰᪱᪲᪳᪴᪻᪼᪾ᪿᫀ᫃᫄᫊᫁᫂᫅᫆᫇᫈᫉᫋ᫌᫍᫎᮀ" \o
            "ᮁᮢᮣᮤᮥᮨᮩ᮫ᮬᮭ᯦ᯨᯩᯭᯯᯰᯱ᳔᳢᳣᳤᳥᳦᳧᳨᳕᳖᳗᳘᳙᳜᳝᳞᳟᳭᳐᳑᳒᳚᳛᳠᳴᳸᳹ᶛᶜᶝᶞᶟᶠᶡᶢᶣᶤᶥᶦ" \o
            "ᶧᶨᶩᶪᶫᶬᶭᶮᶯᶰᶱᶲᶳᶴᶵᶶᶷᶸᶹᶺᶻᶼᶽᶾᶿ᷐᷎᷂᷊᷏᷀᷁᷃᷄᷅᷆᷇᷈᷉᷋᷌᷑᷒ᷓᷔᷕᷖᷗᷘᷙᷚᷛᷜᷝᷞ᷍" \o
            "᷺᷹᷽᷿᷷᷸ᷟᷠᷡᷢᷣᷤᷥᷦᷧᷨᷩᷪᷫᷬᷭᷮᷯᷰᷱᷲᷳᷴ᷵᷻᷾᷶᷼᾽᾿῀῁῍῎῏῝῞῟῭΅`´῾ₐₑₒₓₔₕₖₗ" \o
            "ₘₙₚₛₜ⃒⃓⃘⃙⃚⃐⃑⃔⃕⃖⃗⃛⃜⃝⃞⃟⃠⃡⃢⃣⃤⃥⃦⃪⃫⃨⃬⃭⃮⃯⃧⃩⃰⳯⳰⳱ⷠⷡⷢⷣⷤⷥⷦⷧⷨⷩⷪⷫⷬⷭⷮ" \o
            "゙゚ⷯⷰⷱⷲⷳⷴⷵⷶⷷⷸⷹⷺⷻⷼⷽⷾⷿ゛゜ゝゞーヽヾꓸꓹꓺꓻꓼꓽꚜꚝꚞꚟ꛰꛱ꞈ꞉꞊ꟲꟳꟴꟸꟹ꣄ꣅ꣠꣡꣢꣣꣤꣥꣦꣧" \o
            "꣨꣩꣪꣫꣬꣭꣮꣯꣰꣱ꣿꦀꦁꦂ꦳ꦶꦷꦸꦹꦼꦽꧏꧥꧦꪴꪰꪲꪳꪷꪸꪾ꪿꫁ꫝꫬꫭꫳꫴ꫶ꯥꯨ꯭﮲﮳﮴﮵﮶﮷﮸﮹﮺﮻﮼﮽﮾﮿" \o
            "﯀﯁﯂﻿ﾞﾟ￣￹￺￻")

\* str.isspace for one character: tab, line feed, vertical tab, form feed,
\* carriage return, U+001C-U+001F, space, U+0085, U+00A0, U+1680 (the other
\* Unicode spaces are in no string constant)
IsSpace(c) == c \in {"\t", "\n", "", "\f", "\r", "", "", "", "", " ", "", " ", " "}

RECURSIVE lstrip(_)
lstrip(s) == IF s # "" /\ IsSpace(Head(s)) THEN lstrip(Tail(s)) ELSE s

RECURSIVE rstrip(_)
rstrip(s) ==
    IF s # "" /\ IsSpace(SubSeq(s, Len(s), Len(s)))
    THEN rstrip(SubSeq(s, 1, Len(s) - 1))
    ELSE s

\* s.strip()
strip(s) == rstrip(lstrip(s))

\* k in s, for two str
Substring(k, s) ==
    \E i \in 1..(Len(s) - Len(k) + 1) : SubSeq(s, i, i + Len(k) - 1) = k

\* the first units of the pairs that stand for the characters above U+FFFF
HighSurrogates ==
    LET t == "𰂀𰒀𰢀𰲀𱂀𱒀𱢀𱲀𲂀𲒀𲢀𲲀𳂀𳒀𳢀𳲀𴂀𴒀𴢀𴲀𵂀𵒀𵢀𵲀𶂀𶒀𶢀𶲀" \o
             "𷂀𷒀𷢀𷲀𸂀𸒀𸢀𸲀𹂀𹒀𹢀𹲀𺂀𺒀𺢀𺲀𻂀𻒀𻢀𻲀𼂀𼒀𼢀𼲀𽂀𽒀𽢀𽲀" \o
             "𾂀𾒀𾢀𾲀𿂀𿒀𿢀𿲀񀂀񀒀񀢀񀲀񁂀񁒀񁢀񁲀񂂀񂒀񂢀񂲀񃂀񃒀񃢀񃲀񄂀񄒀񄢀񄲀" \o
             "񅂀񅒀񅢀񅲀񆂀񆒀񆢀񆲀񇂀񇒀񇢀񇲀񈂀񈒀񈢀񈲀񉂀񉒀񉢀񉲀񊂀񊒀񊢀񊲀񋂀񋒀񋢀񋲀" \o
             "񌂀񌒀񌢀񌲀񍂀񍒀񍢀񍲀񎂀񎒀񎢀񎲀񏂀񏒀񏢀񏲀񰂀񰒀񰢀񰲀񱂀񱒀񱢀񱲀񲂀񲒀񲢀񲲀" \o
             "񳂀񳒀񳢀񳲀񴂀񴒀񴢀񴲀񵂀񵒀񵢀񵲀񶂀񶒀񶢀񶲀񷂀񷒀񷢀񷲀񸂀񸒀񸢀񸲀񹂀񹒀񹢀񹲀" \o
             "񺂀񺒀񺢀񺲀񻂀񻒀񻢀񻲀񼂀񼒀񼢀񼲀񽂀񽒀񽢀񽲀񾂀񾒀񾢀񾲀񿂀񿒀񿢀񿲀򀂀򀒀򀢀򀲀" \o
             "򁂀򁒀򁢀򁲀򂂀򂒀򂢀򂲀򃂀򃒀򃢀򃲀򄂀򄒀򄢀򄲀򅂀򅒀򅢀򅲀򆂀򆒀򆢀򆲀򇂀򇒀򇢀򇲀" \o
             "򈂀򈒀򈢀򈲀򉂀򉒀򉢀򉲀򊂀򊒀򊢀򊲀򋂀򋒀򋢀򋲀򌂀򌒀򌢀򌲀򍂀򍒀򍢀򍲀򎂀򎒀򎢀򎲀" \o
             "򏂀򏒀򏢀򏲀򰂀򰒀򰢀򰲀򱂀򱒀򱢀򱲀򲂀򲒀򲢀򲲀򳂀򳒀򳢀򳲀򴂀򴒀򴢀򴲀򵂀򵒀򵢀򵲀" \o
             "򶂀򶒀򶢀򶲀򷂀򷒀򷢀򷲀򸂀򸒀򸢀򸲀򹂀򹒀򹢀򹲀򺂀򺒀򺢀򺲀򻂀򻒀򻢀򻲀򼂀򼒀򼢀򼲀" \o
             "򽂀򽒀򽢀򽲀򾂀򾒀򾢀򾲀򿂀򿒀򿢀򿲀󀂀󀒀󀢀󀲀󁂀󁒀󁢀󁲀󂂀󂒀󂢀󂲀󃂀󃒀󃢀󃲀" \o
             "󄂀󄒀󄢀󄲀󅂀󅒀󅢀󅲀󆂀󆒀󆢀󆲀󇂀󇒀󇢀󇲀󈂀󈒀󈢀󈲀󉂀󉒀󉢀󉲀󊂀󊒀󊢀󊲀" \o
             "󋂀󋒀󋢀󋲀󌂀󌒀󌢀󌲀󍂀󍒀󍢀󍲀󎂀󎒀󎢀󎲀󏂀󏒀󏢀󏲀󰂀󰒀󰢀󰲀󱂀󱒀󱢀󱲀" \o
             "󲂀󲒀󲢀󲲀󳂀󳒀󳢀󳲀󴂀󴒀󴢀󴲀󵂀󵒀󵢀󵲀󶂀󶒀󶢀󶲀󷂀󷒀󷢀󷲀󸂀󸒀󸢀󸲀" \o
             "󹂀󹒀󹢀󹲀󺂀󺒀󺢀󺲀󻂀󻒀󻢀󻲀󼂀󼒀󼢀󼲀󽂀󽒀󽢀󽲀󾂀󾒀󾢀󾲀󿂀󿒀󿢀󿲀" \o
             "􀂀􀒀􀢀􀲀􁂀􁒀􁢀􁲀􂂀􂒀􂢀􂲀􃂀􃒀􃢀􃲀􄂀􄒀􄢀􄲀􅂀􅒀􅢀􅲀􆂀􆒀􆢀􆲀" \o
             "􇂀􇒀􇢀􇲀􈂀􈒀􈢀􈲀􉂀􉒀􉢀􉲀􊂀􊒀􊢀􊲀􋂀􋒀􋢀􋲀􌂀􌒀􌢀􌲀􍂀􍒀􍢀􍲀" \o
             "􎂀􎒀􎢀􎲀􏂀􏒀􏢀􏲀"
    IN  {SubSeq(t, 2 * i - 1, 2 * i - 1) : i \in 1..(Len(t) \div 2)}

RECURSIVE chars_from(_, _)
\* the characters of s from unit i on
chars_from(s, i) ==
    IF i > Len(s) THEN <<>>
    ELSE IF i < Len(s) /\ SubSeq(s, i, i) \in HighSurrogates
    THEN <<SubSeq(s, i, i + 1)>> \o chars_from(s, i + 2)
    ELSE <<SubSeq(s, i, i)>> \o chars_from(s, i + 1)

\* the characters of a str, as iteration over it yields them
Chars(s) == chars_from(s, 1)

\* the capital sigma that is character i of s ends a word: a cased character
\* stands before it and none after it, case-ignorable characters skipped
final_sigma(s, i) ==
    LET at(j) == Chars(s)[j]
        letter(j, between) ==
            /\ at(j) \notin CaseIgnorable
            /\ at(j) \in Cased
            /\ \A m \in between : at(m) \in CaseIgnorable
    IN  /\ \E j \in 1..(i - 1) : letter(j, (j + 1)..(i - 1))
        /\ ~\E k \in (i + 1)..Len(Chars(s)) : letter(k, (i + 1)..(k - 1))

RECURSIVE lower_from(_, _)
\* the characters of s.lower() from character i on
lower_from(s, i) ==
    IF i > Len(Chars(s)) THEN <<>>
    ELSE <<IF Chars(s)[i] = "Σ" /\ final_sigma(s, i) THEN [chr |-> "ς"]
           ELSE LowerChar(Chars(s)[i])>> \o lower_from(s, i + 1)

\* s.lower(): its characters in order, each as LowerChar gives it
lower(s) == lower_from(s, 1)

(***************************************************************************)
(* Python values.                                                          *)
(***************************************************************************)
PyNone == [t |-> "NoneType"]
PyBool(b) == [t |-> "bool", v |-> b]
PyInt(n) == [t |-> "int", v |-> n]
PyStr(s) == [t |-> "str", v |-> s]
PyList(q) == [t |-> "list", v |-> q]
\* a dict: k its keys in insertion order, the order iteration yields them;
\* v the value under each key
PyDict(k, f) == [t |-> "dict", k |-> k, v |-> f]
\* a float with one decimal place, v counting tenths: PyFloat(333) is 33.3
PyFloat(tenths) == [t |-> "float", v |-> tenths]

\* a list of str from a sequence of TLA+ strings
StrList(q) == PyList([i \in DOMAIN q |-> PyStr(q[i])])

IsNum(a) == a.t \in {"int", "bool"}
NumOf(a) == IF a.t = "bool" THEN (IF a.v THEN 1 ELSE 0) ELSE a.v

RECURSIVE PyEq(_, _)
\* a == b
PyEq(a, b) ==
    IF IsNum(a) /\ IsNum(b) THEN NumOf(a) = NumOf(b)
    ELSE IF a.t # b.t THEN FALSE
    ELSE CASE a.t = "NoneType" -> TRUE
           [] a.t = "str" -> a.v = b.v
           [] a.t = "list" ->
                /\ Len(a.v) = Len(b.v)
                /\ \A i \in DOMAIN a.v : PyEq(a.v[i], b.v[i])
           [] a.t = "dict" ->
                /\ DOMAIN a.v = DOMAIN b.v
                /\ \A k \in DOMAIN a.v : PyEq(a.v[k], b.v[k])

\* bool(v), as "if not v" tests it
Truthy(v) ==
    CASE v.t = "NoneType" -> FALSE
      [] v.t = "bool" -> v.v
      [] v.t = "int" -> v.v # 0
      [] v.t = "str" -> v.v # ""
      [] v.t = "list" -> Len(v.v) > 0
      [] v.t = "dict" -> DOMAIN v.v # {}

\* first index of q holding a value == x, 0 if none
FirstEq(q, x) ==
    IF \E i \in DOMAIN q : PyEq(q[i], x)
    THEN CHOOSE i \in DOMAIN q : PyEq(q[i], x) /\ \A j \in 1..(i - 1) : ~PyEq(q[j], x)
    ELSE 0

\* a remove() that leaves the list as it was
RemoveAt_keeps(q, i) == q

\* a remove that drops the first element whatever i is
RemoveAt_first(q, i) == Tail(q)

\* q without its element at index i
RemoveAt(q, i) == SubSeq(q, 1, i - 1) \o SubSeq(q, i + 1, Len(q))

\* an insert() that appends
InsertAt_end(q, i, x) == q \o <<x>>

\* q with x inserted before 0-based index i (list.insert)
InsertAt(q, i, x) == SubSeq(q, 1, i) \o <<x>> \o SubSeq(q, i + 1, Len(q))

(***************************************************************************)
(* JSON documents and the two conversions of the json module.              *)
(***************************************************************************)
JNull == [t |-> "null"]
JBool(b) == [t |-> "boolean", v |-> b]
JNumber(n) == [t |-> "number", v |-> n]
JString(s) == [t |-> "string", v |-> s]
JArray(q) == [t |-> "array", v |-> q]
\* an object: k its keys in the order of the text, v the value under each key
JObject(k, f) == [t |-> "object", k |-> k, v |-> f]

RECURSIVE json_dump(_)
\* json.dump: the document json writes for a Python value
json_dump(x) ==
    CASE x.t = "NoneType" -> JNull
      [] x.t = "bool" -> JBool(x.v)
      [] x.t = "int" -> JNumber(x.v)
      [] x.t = "str" -> JString(x.v)
      [] x.t = "list" -> JArray([i \in DOMAIN x.v |-> json_dump(x.v[i])])
      [] x.t = "dict" -> JObject(x.k, [k \in DOMAIN x.v |-> json_dump(x.v[k])])

RECURSIVE json_value(_)
\* the Python value json.load builds for a document
json_value(d) ==
    CASE d.t = "null" -> PyNone
      [] d.t = "boolean" -> PyBool(d.v)
      [] d.t = "number" -> PyInt(d.v)
      [] d.t = "string" -> PyStr(d.v)
      [] d.t = "array" -> PyList([i \in DOMAIN d.v |-> json_value(d.v[i])])
      [] d.t = "object" -> PyDict(d.k, [k \in DOMAIN d.v |-> json_value(d.v[k])])

(***************************************************************************)
(* Files.  A path holds no file, a JSON document, text that is not JSON    *)
(* (the empty file included), or a strict prefix of a document's text.     *)
(***************************************************************************)
NoFile == [t |-> "absent"]
JsonFile(d) == [t |-> "json", v |-> d]
TextFile(s) == [t |-> "text", v |-> s]
PartialFile(d) == [t |-> "partial", v |-> d]

\* Path(...).exists()
exists(f) == f.t # "absent"

\* open(path, "r") and json.load(f): the value, or the exception raised
\* (FileNotFoundError by open when there is no file, JSONDecodeError by
\* json.load when the text is no JSON document)
json_load(f) ==
    IF f.t = "json"
    THEN [ok |-> TRUE, exc |-> "none", value |-> json_value(f.v)]
    ELSE [ok |-> FALSE,
          exc |-> IF f.t = "absent" THEN "FileNotFoundError" ELSE "JSONDecodeError",
          value |-> PyNone]

(***************************************************************************)
(* The engine's fields as one record, and the records it stores.           *)
(***************************************************************************)
Engine(oo, rem, wat, his, tot) ==
    [original_order |-> oo, remaining_shows |-> rem, watched_shows |-> wat,
     history |-> his, total_shows |-> tot]

\* the dict select_show builds (lines 59-63)
Selection(selected, timestamp) ==
    PyDict(<<"show", "timestamp", "action">>,
           [show |-> selected, timestamp |-> PyStr(timestamp),
            action |-> PyStr("watched")])

\* a dict that stores original_order under "remaining" too
SaveDict_swapped(self) ==
    PyDict(<<"original_order", "remaining", "watched", "history">>,
           [original_order |-> self.original_order,
            remaining |-> self.original_order,
            watched |-> self.watched_shows,
            history |-> self.history])

\* the dict save_progress hands to json.dump
SaveDict(self) ==
    PyDict(<<"original_order", "remaining", "watched", "history">>,
           [original_order |-> self.original_order,
            remaining |-> self.remaining_shows,
            watched |-> self.watched_shows,
            history |-> self.history])

\* save_progress() (lines 110-122): the file once it has been written and closed
save_progress_call(self) == JsonFile(json_dump(SaveDict(self)))

(***************************************************************************)
(* load_progress (lines 124-234).                                          *)
(***************************************************************************)
required_keys == <<"original_order", "remaining", "watched", "history">>

\* key in data: "True", "False", or "TypeError" when data is no container
py_contains(key, data) ==
    CASE data.t = "dict" -> IF key \in DOMAIN data.v THEN "True" ELSE "False"
      [] data.t = "list" ->
            IF \E i \in DOMAIN data.v : PyEq(data.v[i], PyStr(key))
            THEN "True" ELSE "False"
      [] data.t = "str" -> IF Substring(key, data.v) THEN "True" ELSE "False"
      [] OTHER -> "TypeError"

\* all(key in data for key in required_keys)
all_keys_in(data) ==
    IF py_contains(required_keys[1], data) = "TypeError" THEN "TypeError"
    ELSE IF \A i \in DOMAIN required_keys : py_contains(required_keys[i], data) = "True"
         THEN "True" ELSE "False"

\* the four isinstance(..., list) tests of lines 139-144, data a dict with the keys
all_lists(data) ==
    /\ data.v["original_order"].t = "list"
    /\ data.v["remaining"].t = "list"
    /\ data.v["watched"].t = "list"
    /\ data.v["history"].t = "list"

\* len(x): -1 stands for TypeError
py_len(x) ==
    CASE x.t = "list" -> Len(x.v)
      [] x.t = "str" -> Len(Chars(x.v))
      [] x.t = "dict" -> Cardinality(DOMAIN x.v)
      [] OTHER -> -1

\* an adoption that takes remaining_shows from "original_order"
adopt_swapped(d) ==
    Engine(d.v["original_order"], d.v["original_order"], d.v["watched"],
           d.v["history"], py_len(d.v["original_order"]))

\* lines 147-151 and 172-176: the four assignments, then total_shows
adopt(d) ==
    Engine(d.v["original_order"], d.v["remaining"], d.v["watched"],
           d.v["history"], py_len(d.v["original_order"]))

\* lines 164-184: the attempt to load the backup.  adopted says whether the
\* return of line 180 is reached; self is the engine as the attempt left it.
load_backup(self, backup) ==
    LET bp == json_load(backup)
        backup_data == bp.value
    IN  IF ~exists(backup) \/ ~bp.ok \/ all_keys_in(backup_data) # "True"
           \/ backup_data.t # "dict"
        THEN [adopted |-> FALSE, self |-> self]
        ELSE IF py_len(backup_data.v["original_order"]) < 0
        THEN [adopted |-> FALSE,
              self |-> [adopt(backup_data) EXCEPT !.total_shows = self.total_shows]]
        ELSE [adopted |-> TRUE, self |-> adopt(backup_data)]

\* data.get(key, []) if data else [] (lines 188-190); ok is FALSE for
\* AttributeError (data is truthy and no dict)
salvage(data, key) ==
    IF ~Truthy(data) THEN [ok |-> TRUE, value |-> PyList(<<>>)]
    ELSE IF data.t # "dict" THEN [ok |-> FALSE, value |-> PyNone]
    ELSE [ok |-> TRUE,
          value |-> IF key \in DOMAIN data.v THEN data.v[key] ELSE PyList(<<>>)]

\* what "for s in x" iterates over; ok is FALSE when x is not iterable
py_iter(x) ==
    CASE x.t = "list" -> [ok |-> TRUE, items |-> x.v]
      [] x.t = "str" -> [ok |-> TRUE, items |-> [i \in DOMAIN Chars(x.v) |-> PyStr(Chars(x.v)[i])]]
      [] x.t = "dict" ->
            [ok |-> TRUE,
             items |-> [i \in DOMAIN x.k |-> PyStr(x.k[i])]]
      [] OTHER -> [ok |-> FALSE, items |-> <<>>]

\* whether s["show"] evaluates
has_show(s) == s.t = "dict" /\ "show" \in DOMAIN s.v

\* [s["show"] for s in watched] (line 193); ok is FALSE when it raises
shows_of(watched) ==
    LET it == py_iter(watched)
    IN  IF ~it.ok \/ \E i \in DOMAIN it.items : ~has_show(it.items[i])
        THEN [ok |-> FALSE, items |-> <<>>]
        ELSE [ok |-> TRUE, items |-> [i \in DOMAIN it.items |-> it.items[i].v["show"]]]

RECURSIVE dedup_exact(_, _, _)
\* a loop that compares the names as they are written
dedup_exact(all, seen, recovered_order) ==
    IF all = <<>> THEN recovered_order
    ELSE LET show == Head(all)
         IN  IF show.v \notin seen
             THEN dedup_exact(Tail(all), seen \cup {show.v}, Append(recovered_order, show))
             ELSE dedup_exact(Tail(all), seen, recovered_order)

RECURSIVE dedup(_, _, _)
\* the loop of lines 195-200 over a sequence of str: seen holds the lower-cased
\* names met, recovered_order the names kept
dedup(all, seen, recovered_order) ==
    IF all = <<>> THEN recovered_order
    ELSE LET show == Head(all)
         IN  IF lower(show.v) \notin seen
             THEN dedup(Tail(all), seen \cup {lower(show.v)}, Append(recovered_order, show))
             ELSE dedup(Tail(all), seen, recovered_order)

\* x in q, q a sequence of Python values
py_in(x, q) == \E i \in DOMAIN q : PyEq(q[i], x)

RECURSIVE keep_in(_, _)
\* [s for s in q if s in order] (lines 213-215)
keep_in(q, order) ==
    IF q = <<>> THEN <<>>
    ELSE IF py_in(Head(q), order) THEN <<Head(q)>> \o keep_in(Tail(q), order)
    ELSE keep_in(Tail(q), order)

RECURSIVE keep_show_in(_, _)
\* [s for s in q if s["show"] in order] (lines 217-219)
keep_show_in(q, order) ==
    IF q = <<>> THEN <<>>
    ELSE IF py_in(Head(q).v["show"], order)
    THEN <<Head(q)>> \o keep_show_in(Tail(q), order)
    ELSE keep_show_in(Tail(q), order)

\* lines 187-219: ok is FALSE when the block raises (line 221 catches it)
recover(data, initial_shows) ==
    LET r == salvage(data, "remaining")
        w == salvage(data, "watched")
        h == salvage(data, "history")
        ws == shows_of(w.value)
        all == r.value.v \o ws.items \o StrList(initial_shows).v
    IN  IF ~r.ok \/ ~w.ok \/ ~h.ok \/ ~ws.ok \/ r.value.t # "list"
           \/ \E i \in DOMAIN all : all[i].t # "str"
        THEN [ok |-> FALSE, self |-> Engine(PyNone, PyNone, PyNone, PyNone, 0)]
        ELSE LET recovered_order == dedup(all, {}, <<>>)
             IN  [ok |-> TRUE,
                  self |-> Engine(PyList(recovered_order),
                                  PyList(keep_in(r.value.v, recovered_order)),
                                  PyList(keep_show_in(py_iter(w.value).items, recovered_order)),
                                  h.value,
                                  Len(recovered_order))]

\* a reset that leaves the pool empty
full_reset_empty_pool(initial_shows) ==
    Engine(StrList(initial_shows), PyList(<<>>), PyList(<<>>),
           PyList(<<>>), Len(initial_shows))

\* lines 228-232
full_reset(initial_shows) ==
    Engine(StrList(initial_shows), StrList(initial_shows), PyList(<<>>),
           PyList(<<>>), Len(initial_shows))

\* a handler that does not rename: it reads the backup that was there before
recover_from_corruption_old(self, data, file, backup, initial_shows) ==
    LET b == load_backup(self, backup)
        rec == recover(data, initial_shows)
        after == IF rec.ok THEN rec.self ELSE full_reset(initial_shows)
    IN  IF b.adopted
        THEN [exc |-> "none", outcome |-> "AdoptFromBackup", self |-> b.self,
              file |-> NoFile, backup |-> backup]
        ELSE [exc |-> "none",
              outcome |-> IF rec.ok THEN "DataRecovery" ELSE "FullReset",
              self |-> after, file |-> save_progress_call(after), backup |-> backup]

\* lines 153-234: the handler of a failed Parse or Validate.  data is what
\* json.load returned (None when it raised).
recover_from_corruption(self, data, file, backup, initial_shows) ==
    LET renamed == IF exists(file) THEN file ELSE backup
        b == load_backup(self, renamed)
        rec == recover(data, initial_shows)
        after == IF rec.ok THEN rec.self ELSE full_reset(initial_shows)
    IN  IF b.adopted
        THEN [exc |-> "none", outcome |-> "AdoptFromBackup", self |-> b.self,
              file |-> NoFile, backup |-> renamed]
        ELSE [exc |-> "none",
              outcome |-> IF rec.ok THEN "DataRecovery" ELSE "FullReset",
              self |-> after, file |-> save_progress_call(after), backup |-> renamed]

\* load_progress(initial_shows) on an engine self, with the two files
load_progress(self, file, backup, initial_shows) ==
    LET p == json_load(file)
        data == p.value
        keys == all_keys_in(data)
        escaped == [exc |-> "TypeError", outcome |-> "Escaped", self |-> self,
                    file |-> file, backup |-> backup]
    IN  IF p.exc = "FileNotFoundError"
        THEN [escaped EXCEPT !.exc = "FileNotFoundError"]
        ELSE IF ~p.ok
        THEN recover_from_corruption(self, PyNone, file, backup, initial_shows)
        ELSE IF keys = "TypeError" THEN escaped
        ELSE IF keys = "False"
        THEN recover_from_corruption(self, data, file, backup, initial_shows)
        ELSE IF data.t # "dict" THEN escaped
        ELSE IF ~all_lists(data)
        THEN recover_from_corruption(self, data, file, backup, initial_shows)
        ELSE [exc |-> "none", outcome |-> "Adopt", self |-> adopt(data),
              file |-> file, backup |-> backup]

\* __init__ (lines 25-35)
construct(shows, file, backup) ==
    LET self == Engine(StrList(shows), StrList(shows), PyList(<<>>), PyList(<<>>),
                       Len(shows))
    IN  IF exists(file) THEN load_progress(self, file, backup, shows)
        ELSE [exc |-> "none", outcome |-> "NoFile", self |-> self,
              file |-> file, backup |-> backup]

(***************************************************************************)
(* The three commands.  Each operator gives the engine after the call, the *)
(* value returned, the exception that escaped ("none" if none did) and     *)
(* whether save_progress ran.                                              *)
(***************************************************************************)
\* a result that always reports save_progress as having run
Outcome_saves(exc, ret, self, saved) ==
    [exc |-> exc, ret |-> ret, self |-> self, saved |-> TRUE]

Outcome(exc, ret, self, saved) ==
    [exc |-> exc, ret |-> ret, self |-> self, saved |-> saved]

\* a duplicate test that compares the names as they are, case included
first_stop_exact(items, name) ==
    LET same(x) == [i \in DOMAIN Chars(x) |-> [chr |-> Chars(x)[i]]] = name
    IN  IF \E i \in DOMAIN items : items[i].t # "str" \/ same(items[i].v)
        THEN CHOOSE i \in DOMAIN items :
                /\ items[i].t # "str" \/ same(items[i].v)
                /\ \A j \in 1..(i - 1) : items[j].t = "str" /\ ~same(items[j].v)
        ELSE 0

\* the index of the first element of items that any() of line 44 stops at: one
\* that has no lower() or whose lower() equals name; 0 if there is none
first_stop(items, name) ==
    IF \E i \in DOMAIN items : items[i].t # "str" \/ lower(items[i].v) = name
    THEN CHOOSE i \in DOMAIN items :
            /\ items[i].t # "str" \/ lower(items[i].v) = name
            /\ \A j \in 1..(i - 1) : items[j].t = "str" /\ lower(items[j].v) # name
    ELSE 0

\* add_show(show_name) (lines 37-51)
add_show_call(self, name) ==
    LET show_name == strip(name)
        it == py_iter(self.original_order)
        stop == first_stop(it.items, lower(show_name))
        appended == [self EXCEPT !.original_order =
                        PyList(Append(self.original_order.v, PyStr(show_name)))]
        both == [appended EXCEPT
                    !.remaining_shows = PyList(Append(self.remaining_shows.v, PyStr(show_name))),
                    !.total_shows = Len(appended.original_order.v)]
    IN  IF show_name = "" THEN Outcome("none", PyBool(FALSE), self, FALSE)
        ELSE IF ~it.ok THEN Outcome("TypeError", PyNone, self, FALSE)
        ELSE IF stop # 0 /\ it.items[stop].t # "str"
        THEN Outcome("AttributeError", PyNone, self, FALSE)
        ELSE IF stop # 0 THEN Outcome("none", PyBool(FALSE), self, FALSE)
        ELSE IF self.original_order.t # "list"
        THEN Outcome("AttributeError", PyNone, self, FALSE)
        ELSE IF self.remaining_shows.t # "list"
        THEN Outcome("AttributeError", PyNone, appended, FALSE)
        ELSE Outcome("none", PyBool(TRUE), both, TRUE)

\* select_show() (lines 53-70), random.choice picking the element at index
\* pick (1-based) and datetime.now() giving timestamp
select_show_call(self, pick, timestamp) ==
    LET rem == self.remaining_shows
        selected == IF rem.t = "str" THEN PyStr(Chars(rem.v)[pick]) ELSE rem.v[pick]
        selection == Selection(selected, timestamp)
        watched == [self EXCEPT !.watched_shows =
                        PyList(Append(self.watched_shows.v, selection))]
        removed == [watched EXCEPT !.remaining_shows =
                        PyList(RemoveAt(rem.v, FirstEq(rem.v, selected)))]
        logged == [removed EXCEPT !.history = PyList(Append(self.history.v, selection))]
    IN  IF ~Truthy(rem) THEN Outcome("none", PyNone, self, FALSE)
        ELSE IF rem.t \in {"int", "bool"} THEN Outcome("TypeError", PyNone, self, FALSE)
        ELSE IF rem.t = "dict" THEN Outcome("KeyError", PyNone, self, FALSE)
        ELSE IF self.watched_shows.t # "list"
        THEN Outcome("AttributeError", PyNone, self, FALSE)
        ELSE IF rem.t # "list" THEN Outcome("AttributeError", PyNone, watched, FALSE)
        ELSE IF self.history.t # "list"
        THEN Outcome("AttributeError", PyNone, removed, FALSE)
        ELSE Outcome("none", selection, logged, TRUE)

\* s.index(k) for two str, 0-based: the number of characters before the
\* first occurrence of k; -1 if k is no substring of s
str_find(k, s) ==
    IF Substring(k, s)
    THEN LET i == CHOOSE j \in 1..(Len(s) - Len(k) + 1) :
                    /\ SubSeq(s, j, j + Len(k) - 1) = k
                    /\ \A m \in 1..(j - 1) : SubSeq(s, m, m + Len(k) - 1) # k
         IN  Len(Chars(SubSeq(s, 1, i - 1)))
    ELSE -1

\* c.index(x): the 0-based index, or the exception raised
py_index(c, x) ==
    CASE c.t = "list" ->
            IF FirstEq(c.v, x) = 0 THEN [exc |-> "ValueError", i |-> 0]
            ELSE [exc |-> "none", i |-> FirstEq(c.v, x) - 1]
      [] c.t = "str" ->
            IF x.t # "str" THEN [exc |-> "TypeError", i |-> 0]
            ELSE IF str_find(x.v, c.v) < 0 THEN [exc |-> "ValueError", i |-> 0]
            ELSE [exc |-> "none", i |-> str_find(x.v, c.v)]
      [] OTHER -> [exc |-> "AttributeError", i |-> 0]

\* a scan that always answers the end of the pool
insert_scan_append(items, idx, original_order, original_index) ==
    [exc |-> "none", i |-> Len(items)]

RECURSIVE insert_scan(_, _, _, _)
\* the loop of lines 85-91 from 0-based position idx on: the insert_index it
\* ends with, or the exception original_order.index(show) raises on the way
insert_scan(items, idx, original_order, original_index) ==
    IF idx >= Len(items) THEN [exc |-> "none", i |-> Len(items)]
    ELSE LET at == py_index(original_order, items[idx + 1])
         IN  IF at.exc # "none" THEN at
             ELSE IF at.i > original_index THEN [exc |-> "none", i |-> idx]
             ELSE insert_scan(items, idx + 1, original_order, original_index)

\* last_selection["show"]: the exception raised, "none" if it evaluates
subscript_show(x) ==
    IF x.t = "dict" THEN (IF "show" \in DOMAIN x.v THEN "none" ELSE "KeyError")
    ELSE "TypeError"

\* undo_last() (lines 72-97)
undo_last_call(self) ==
    LET his == self.history
        last_selection == his.v[Len(his.v)]
        popped == [self EXCEPT !.history = PyList(SubSeq(his.v, 1, Len(his.v) - 1))]
        show_to_restore == last_selection.v["show"]
        found == py_index(self.original_order, show_to_restore)
        original_index == IF found.exc = "ValueError"
                          THEN py_len(self.original_order) ELSE found.i
        it == py_iter(self.remaining_shows)
        scan == insert_scan(it.items, 0, self.original_order, original_index)
        inserted == [popped EXCEPT !.remaining_shows =
                        PyList(InsertAt(self.remaining_shows.v, scan.i, show_to_restore))]
        at == FirstEq(self.watched_shows.v, last_selection)
        removed == [inserted EXCEPT !.watched_shows =
                        PyList(RemoveAt(self.watched_shows.v, at))]
    IN  IF ~Truthy(his) THEN Outcome("none", PyNone, self, FALSE)
        ELSE IF his.t = "dict" THEN Outcome("TypeError", PyNone, self, FALSE)
        ELSE IF his.t # "list" THEN Outcome("AttributeError", PyNone, self, FALSE)
        ELSE IF subscript_show(last_selection) # "none"
        THEN Outcome(subscript_show(last_selection), PyNone, popped, FALSE)
        ELSE IF found.exc \notin {"none", "ValueError"}
        THEN Outcome(found.exc, PyNone, popped, FALSE)
        ELSE IF ~it.ok THEN Outcome("TypeError", PyNone, popped, FALSE)
        ELSE IF scan.exc # "none" THEN Outcome(scan.exc, PyNone, popped, FALSE)
        ELSE IF self.remaining_shows.t # "list"
        THEN Outcome("AttributeError", PyNone, popped, FALSE)
        ELSE IF self.watched_shows.t # "list"
        THEN Outcome("AttributeError", PyNone, inserted, FALSE)
        ELSE IF at = 0 THEN Outcome("ValueError", PyNone, inserted, FALSE)
        ELSE Outcome("none", last_selection, removed, TRUE)

\* round((watched / total) * 100, 1) in tenths, for 0 <= watched < 2^20 and
\* 0 < total < 2^20, computed as the code computes it: watched / total is the
\* double nearest the quotient, the product by 100 the double nearest that
\* product, and round(x, 1) the tenth nearest the double x.  The two roundings
\* move the value by less than the distance from a ratio to the middle of two
\* tenths, so they matter only when 100 * watched / total lies exactly in the
\* middle (23 / 80 is 28.75): round() then goes down if the double is below
\* the middle (28.7), up if it is above, and to the even tenth if it is the
\* middle itself.  excess is the sign of the double minus the exact value.
round1(watched, total) ==
    LET q == (1000 * watched) \div total
        r == (1000 * watched) % total
        \* 2^e <= watched / total < 2^(e + 1)
        e == IF watched >= total
             THEN CHOOSE k \in 0..30 : 2^k * total <= watched /\ watched < 2^(k + 1) * total
             ELSE 0 - (CHOOSE k \in 1..31 : total <= watched * 2^k /\ watched * 2^k < 2 * total)
        \* (watched * 2^n) % (256 * total)
        scaled[n \in 0..90] ==
            IF n = 0 THEN watched % (256 * total) ELSE (2 * scaled[n - 1]) % (256 * total)
        \* the quotient has 53 bits: floor(watched * 2^(52 - e) / total), then to
        \* nearest, a tie to even; low is its last 8 bits, rest the remainder
        low == scaled[52 - e] \div total
        rest == scaled[52 - e] % total
        up == 2 * rest > total \/ (2 * rest = total /\ low % 2 = 1)
        \* (the double quotient - watched / total) * total * 2^(52 - e)
        err_div == IF up THEN total - rest ELSE 0 - rest
        m == (low + (IF up THEN 1 ELSE 0)) % 256
        \* 100 * quotient has 59 or 60 bits, 60 when 100 * watched / total is
        \* at least 128 * 2^e; the product keeps 53 of them
        over == IF e >= 0 THEN 100 * watched - 128 * 2^e * total
                ELSE 100 * watched * 2^(0 - e) - 128 * total
        drop == IF over > 0 \/ (over = 0 /\ err_div >= 0) THEN 128 ELSE 64
        lost == (100 * m) % drop
        kept_odd == ((100 * m) \div drop) % 2 = 1
        \* (the double product - 100 * the double quotient) * 2^(52 - e)
        err_mul == IF 2 * lost < drop \/ (2 * lost = drop /\ ~kept_odd)
                   THEN 0 - lost ELSE drop - lost
        excess == 100 * err_div + err_mul * total
    IN  IF 2 * r > total THEN q + 1
        ELSE IF 2 * r < total THEN q
        ELSE IF excess > 0 THEN q + 1
        ELSE IF excess < 0 THEN q
        ELSE IF q % 2 = 0 THEN q ELSE q + 1

\* get_progress() (lines 99-108)
get_progress_call(self) ==
    LET watched == py_len(self.watched_shows)
        remaining == py_len(self.remaining_shows)
    IN  IF watched < 0 \/ remaining < 0
        THEN [exc |-> "TypeError", ret |-> PyNone, self |-> self]
        ELSE [exc |-> "none",
              ret |-> PyDict(<<"watched", "remaining", "total", "percentage">>,
                             [watched |-> PyInt(watched),
                              remaining |-> PyInt(remaining),
                              total |-> PyInt(self.total_shows),
                              percentage |->
                                  IF self.total_shows # 0
                                  THEN PyFloat(round1(watched, self.total_shows))
                                  ELSE PyFloat(0)]),
              self |-> self]

(***************************************************************************)
(* The program as a state machine.                                         *)
(***************************************************************************)
VARIABLES
    original_order,   \* self.original_order
    remaining_shows,  \* self.remaining_shows
    watched_shows,    \* self.watched_shows
    history,          \* self.history
    total_shows,      \* self.total_shows
    file,             \* what tv_show_progress.json holds
    backup,           \* what tv_show_progress.bak holds
    shows,            \* the list the constructor was called with
    pc,               \* "start": no engine yet; "menu": between two commands;
                      \* "crashed": an exception escaped; "add_show_47" and the
                      \* like: inside a command, the line about to run;
                      \* "save_open", "save_dump": inside save_progress;
                      \* "return": at the return of a command that saved;
                      \* "aborted": after KeyboardInterrupt; "exited": after choice 6
    outcome,          \* how construction ended
    display,          \* what the menu loop read and printed in its last iteration
    last,             \* the last call: its name, arguments, result and the state before it
    prev              \* the call before the last one: its name and, if it was
                      \* a select_show that selected, the state before it

vars == <<original_order, remaining_shows, watched_shows, history, total_shows,
          file, backup, shows, pc, outcome, display, last, prev>>

\* the engine's fields now
Self == Engine(original_order, remaining_shows, watched_shows, history, total_shows)

NoEngine == Engine(PyNone, PyNone, PyNone, PyNone, 0)
NoArg == [name |-> "", pick |-> 0, timestamp |-> ""]
\* progress: what get_progress() returned at line 328; bar: the percentage
\* handed to display_progress_bar; total: the total printed at line 380
NoDisplay == [progress |-> PyNone, bar |-> PyNone, total |-> PyNone]
NoCall == [op |-> "none", arg |-> NoArg, exc |-> "none", ret |-> PyNone,
           before |-> NoEngine, file_before |-> NoFile, backup_before |-> NoFile]

(***************************************************************************)
(* Inputs.                                                                 *)
(***************************************************************************)
\* the sequences over S of length at most n
SeqsUpTo(S, n) == UNION {[1..k -> S] : k \in 0..n}

NoRepeat(q) == \A i, j \in DOMAIN q : i # j => q[i] # q[j]

SeedNames == {"A", "a", "B"}
\* seed lists in which no name occurs twice
Seeds == {q \in SeqsUpTo(SeedNames, MaxSeedLen) : NoRepeat(q)}
\* seed lists of any kind
AnySeeds == SeqsUpTo(SeedNames, MaxSeedLen)

\* names typed at the "Enter show name" prompt
AddNames == {" ", " b", "\fC\t"}

\* values of datetime.now().isoformat()
Timestamps == {"2024-05-01T20:00:00.000001", "2024-05-01T20:00:00.000002"}

Start(files, backups, seeds) ==
    /\ original_order = PyNone
    /\ remaining_shows = PyNone
    /\ watched_shows = PyNone
    /\ history = PyNone
    /\ total_shows = 0
    /\ file \in files
    /\ backup \in backups
    /\ shows \in seeds
    /\ pc = "start"
    /\ outcome = "none"
    /\ display = NoDisplay
    /\ last = NoCall
    /\ prev = [op |-> "none", before |-> NoEngine]

\* the state before ShowSelector(shows) with no save file on disk
Init == Start({NoFile}, {NoFile}, Seeds)

(***************************************************************************)
(* Actions.                                                                *)
(***************************************************************************)
SetEngine(self) ==
    /\ original_order' = self.original_order
    /\ remaining_shows' = self.remaining_shows
    /\ watched_shows' = self.watched_shows
    /\ history' = self.history
    /\ total_shows' = self.total_shows

Record(op, arg, exc, ret) ==
    /\ last' = [op |-> op, arg |-> arg, exc |-> exc, ret |-> ret, before |-> Self,
                file_before |-> file, backup_before |-> backup]
    /\ prev' = IF last.op = "select_show" /\ last.exc = "none" /\ last.ret # PyNone
                THEN [op |-> last.op, before |-> last.before]
                ELSE [op |-> last.op, before |-> NoEngine]

\* a command that ran to its return or to the exception that escaped it
Command(op, arg, r) ==
    /\ SetEngine(r.self)
    /\ file' = IF r.saved THEN save_progress_call(r.self) ELSE file
    /\ pc' = IF r.exc = "none" THEN "menu" ELSE "crashed"
    /\ Record(op, arg, r.exc, r.ret)
    /\ UNCHANGED <<backup, shows, outcome, display>>

\* selector = ShowSelector(initial_shows) (line 317)
Construct(initial_shows) ==
    \E r \in {construct(initial_shows, file, backup)} :
        /\ SetEngine(IF r.exc = "none" THEN r.self ELSE NoEngine)
        /\ file' = r.file
        /\ backup' = r.backup
        /\ shows' = initial_shows
        /\ outcome' = r.outcome
        /\ pc' = IF r.exc = "none" THEN "menu" ELSE "crashed"
        /\ Record("__init__", NoArg, r.exc, PyNone)
        /\ UNCHANGED display

ShowSelector ==
    /\ pc = "start"
    /\ Construct(shows)

add_show ==
    /\ pc = "menu"
    /\ \E name \in AddNames :
        \E r \in {add_show_call(Self, name)} :
            /\ r.saved => r.self.total_shows <= MaxShows
            /\ Command("add_show", [NoArg EXCEPT !.name = name], r)

select_show ==
    /\ pc = "menu"
    /\ \E pick \in 1..(IF py_len(remaining_shows) > 0 THEN py_len(remaining_shows) ELSE 1),
          timestamp \in Timestamps :
        \E r \in {select_show_call(Self, pick, timestamp)} :
            Command("select_show", [NoArg EXCEPT !.pick = pick, !.timestamp = timestamp], r)

undo_last ==
    /\ pc = "menu"
    /\ \E r \in {undo_last_call(Self)} : Command("undo_last", NoArg, r)

\* the constructor and the three commands, as choices 1, 2 and 5 of the menu
\* loop call them.  The get_progress() of line 328 and the choices that only
\* print are left to NextMenu: in the states of the specifications built on
\* Next get_progress returns, every watched record can be printed, and neither
\* changes the engine or a file.
Next == ShowSelector \/ add_show \/ select_show \/ undo_last

Spec == Init /\ [][Next]_vars

(***************************************************************************)
(* Construction with a save file on disk.  The file holds anything: text   *)
(* that is not JSON, a JSON value that is no object, an object with some   *)
(* of the four keys or with values of other types, a document with four    *)
(* lists, a document save_progress wrote.                                  *)
(***************************************************************************)
T1 == "2024-05-01T20:00:00.000001"
T2 == "2024-05-01T20:00:00.000002"
JStrings(q) == JArray([i \in DOMAIN q |-> JString(q[i])])
JRecord(show, timestamp) == json_dump(Selection(PyStr(show), timestamp))

\* what each key may hold: <<>> when the key is missing, else <<value>>
OriginalOpts ==
    {<<>>, <<JStrings(<<"A">>)>>, <<JNumber(5)>>, <<JString("AB")>>}
RemainingOpts ==
    {<<>>, <<JStrings(<<"A", "a">>)>>, <<JArray(<<JString("B"), JNumber(1)>>)>>,
     <<JString("x")>>}
WatchedOpts ==
    {<<>>, <<JArray(<<JRecord("b", T1)>>)>>, <<JArray(<<JObject(<<>>, <<>>)>>)>>,
     <<JString("")>>}
HistoryOpts ==
    {<<>>, <<JArray(<<JRecord("b", T1)>>)>>, <<JArray(<<JRecord("C", T2)>>)>>,
     <<JNull>>}

\* the object with the keys that are given
ObjectOf(o, r, w, h) ==
    LET given == [original_order |-> o, remaining |-> r, watched |-> w, history |-> h]
    IN  JObject(SelectSeq(required_keys, LAMBDA x : given[x] # <<>>),
                [k \in {x \in DOMAIN given : given[x] # <<>>} |-> given[k][1]])

Objects ==
    {ObjectOf(o, r, w, h) :
        o \in OriginalOpts, r \in RemainingOpts, w \in WatchedOpts, h \in HistoryOpts}

OtherValues ==
    {JNumber(5), JNumber(0), JNull, JBool(TRUE), JString(""), JString("x"),
     JString("original_order remaining watched history"),
     JArray(<<>>), JArray(<<JNumber(1)>>),
     JStrings(<<"original_order", "remaining", "watched", "history">>)}

\* engines as add_show, select_show and undo_last leave them
SavedEngines ==
    {Engine(StrList(<<"A", "B">>), StrList(<<"B">>),
            PyList(<<Selection(PyStr("A"), T1)>>),
            PyList(<<Selection(PyStr("A"), T1)>>), 2),
     Engine(StrList(<<"a", "C">>), StrList(<<"a", "C">>), PyList(<<>>), PyList(<<>>), 2)}

\* files save_progress wrote
SavedFiles == {save_progress_call(e) : e \in SavedEngines}

SaveFiles ==
    {TextFile(""), TextFile("{\"original_order\": [")}
        \cup {JsonFile(d) : d \in Objects \cup OtherValues}
        \cup SavedFiles

BackupFiles == {NoFile, save_progress_call(Engine(StrList(<<"B">>), StrList(<<"B">>),
                                             PyList(<<>>), PyList(<<>>), 1))}

InitLoad == Start(SaveFiles, BackupFiles, AnySeeds)

\* the constructor alone, over every kind of save file
NextLoad == ShowSelector

SpecLoad == InitLoad /\ [][NextLoad]_vars

(***************************************************************************)
(* Construction followed by commands: no save file, a file save_progress   *)
(* wrote, and one corrupted file for each way the handler of load_progress *)
(* can end.                                                                *)
(***************************************************************************)
RunFiles ==
    {NoFile,
     save_progress_call(Engine(StrList(<<"A", "B">>), StrList(<<"B">>),
                          PyList(<<Selection(PyStr("A"), T1)>>),
                          PyList(<<Selection(PyStr("A"), T1)>>), 2)),
     TextFile("{\"original_order\": ["),
     JsonFile(ObjectOf(<<>>, <<JStrings(<<"A", "a">>)>>, <<JArray(<<JRecord("b", T1)>>)>>,
                       <<JArray(<<JRecord("C", T2)>>)>>)),
     JsonFile(ObjectOf(<<JString("AB")>>, <<JStrings(<<"A", "a">>)>>,
                       <<JArray(<<JRecord("b", T1)>>)>>, <<JArray(<<JRecord("b", T1)>>)>>)),
     JsonFile(JString("x"))}

RunSeeds == {<<"a", "B">>}

InitRun == Start(RunFiles, {NoFile}, RunSeeds)

SpecRun == InitRun /\ [][Next]_vars

(***************************************************************************)
(* Save, then construct a new engine on the file that was saved.           *)
(***************************************************************************)
\* selector.save_progress()
save_progress ==
    /\ pc = "menu"
    /\ SetEngine(Self)
    /\ file' = save_progress_call(Self)
    /\ pc' = "menu"
    /\ Record("save_progress", NoArg, "none", PyNone)
    /\ UNCHANGED <<backup, shows, outcome, display>>

\* seed lists of the second run
ReloadSeeds == {<<>>, <<"B", "B">>, <<"C", "a">>}

\* the program is started again: ShowSelector(initial_shows), the file on disk
ShowSelector_again ==
    /\ pc = "menu"
    /\ exists(file)
    /\ \E initial_shows \in ReloadSeeds : Construct(initial_shows)

RoundTripSeeds == {<<"A", "a">>, <<"B">>}

InitRoundTrip == Start({NoFile}, {NoFile}, RoundTripSeeds)

NextRoundTrip ==
    \/ ShowSelector
    \/ add_show
    \/ select_show
    \/ undo_last
    \/ save_progress
    \/ ShowSelector_again

SpecRoundTrip == InitRoundTrip /\ [][NextRoundTrip]_vars

(***************************************************************************)
(* The menu loop under Ctrl-C (lines 325-396).  KeyboardInterrupt is       *)
(* raised between two statements, so a command runs here one statement at  *)
(* a time: its tests, each of its changes to the engine, then              *)
(* save_progress, which opens the file for writing (emptying it), writes   *)
(* the document and closes the file, then its return.  pc names the line   *)
(* about to run.  The names a command binds on the way are read from the   *)
(* call recorded in last.  main catches KeyboardInterrupt and the process  *)
(* ends.                                                                   *)
(***************************************************************************)
\* the engine's fields are left alone
SameEngine ==
    UNCHANGED <<original_order, remaining_shows, watched_shows, history, total_shows>>

\* a command is entered: its tests passed (go), or it returned ret, or exc escaped
Enter(op, arg, t) ==
    /\ SameEngine
    /\ pc' = IF t.exc # "none" THEN "crashed" ELSE IF t.go THEN t.next ELSE "menu"
    /\ Record(op, arg, t.exc, t.ret)
    /\ UNCHANGED <<file, backup, shows, outcome, display>>

\* one statement of a command ran: the engine it leaves, or the exception it raised
Statement(r, next) ==
    /\ SetEngine(r.self)
    /\ pc' = IF r.exc = "none" THEN next ELSE "crashed"
    /\ last' = [last EXCEPT !.exc = r.exc]
    /\ UNCHANGED <<file, backup, shows, outcome, display, prev>>

\* self.<field>.append(x)
py_append(self, field, x) ==
    IF self[field].t = "list"
    THEN [exc |-> "none", self |-> [self EXCEPT ![field] = PyList(Append(@.v, x))]]
    ELSE [exc |-> "AttributeError", self |-> self]

\* lines 39-45 of add_show: the name is empty or taken (return False), the
\* comparison raises, or the name is new
add_show_tests(self, name) ==
    LET show_name == strip(name)
        it == py_iter(self.original_order)
        stop == first_stop(it.items, lower(show_name))
        ends(exc, ret) == [exc |-> exc, ret |-> ret, go |-> FALSE, next |-> "menu"]
    IN  IF show_name = "" THEN ends("none", PyBool(FALSE))
        ELSE IF ~it.ok THEN ends("TypeError", PyNone)
        ELSE IF stop # 0 /\ it.items[stop].t # "str" THEN ends("AttributeError", PyNone)
        ELSE IF stop # 0 THEN ends("none", PyBool(FALSE))
        ELSE [exc |-> "none", ret |-> PyNone, go |-> TRUE, next |-> "add_show_47"]

add_show_body ==
    /\ pc = "menu"
    /\ \E name \in AddNames :
        \E t \in {add_show_tests(Self, name)} :
            /\ t.go => py_len(original_order) < MaxShows
            /\ Enter("add_show", [NoArg EXCEPT !.name = name], t)

\* show_name of the add_show that is running
show_name_now == PyStr(strip(last.arg.name))

\* self.original_order.append(show_name) (line 47)
add_show_47 ==
    /\ pc = "add_show_47"
    /\ Statement(py_append(Self, "original_order", show_name_now), "add_show_48")

\* self.remaining_shows.append(show_name) (line 48)
add_show_48 ==
    /\ pc = "add_show_48"
    /\ Statement(py_append(Self, "remaining_shows", show_name_now), "add_show_49")

\* self.total_shows = len(self.original_order) (line 49)
add_show_49 ==
    /\ pc = "add_show_49"
    /\ Statement([exc |-> "none",
                  self |-> [Self EXCEPT !.total_shows = py_len(original_order)]],
                 "save_open")

\* lines 55-63 of select_show: the pool is empty (return None), random.choice
\* raises, or a show is chosen
select_show_tests(self) ==
    LET rem == self.remaining_shows
        ends(exc) == [exc |-> exc, ret |-> PyNone, go |-> FALSE, next |-> "menu"]
    IN  IF ~Truthy(rem) THEN ends("none")
        ELSE IF rem.t \in {"int", "bool"} THEN ends("TypeError")
        ELSE IF rem.t = "dict" THEN ends("KeyError")
        ELSE [exc |-> "none", ret |-> PyNone, go |-> TRUE, next |-> "select_show_65"]

select_show_body ==
    /\ pc = "menu"
    /\ \E pick \in 1..(IF py_len(remaining_shows) > 0 THEN py_len(remaining_shows) ELSE 1),
          timestamp \in Timestamps :
        Enter("select_show", [NoArg EXCEPT !.pick = pick, !.timestamp = timestamp],
              select_show_tests(Self))

\* selected and selection of the select_show that is running
selected_now ==
    LET rem == last.before.remaining_shows
    IN  IF rem.t = "str" THEN PyStr(Chars(rem.v)[last.arg.pick]) ELSE rem.v[last.arg.pick]
selection_now == Selection(selected_now, last.arg.timestamp)

\* self.watched_shows.append(selection) (line 65)
select_show_65 ==
    /\ pc = "select_show_65"
    /\ Statement(py_append(Self, "watched_shows", selection_now), "select_show_66")

\* self.remaining_shows.remove(selected) (line 66)
select_show_66 ==
    /\ pc = "select_show_66"
    /\ Statement(IF remaining_shows.t = "list"
                 THEN [exc |-> "none",
                       self |-> [Self EXCEPT !.remaining_shows =
                                    PyList(RemoveAt(@.v, FirstEq(@.v, selected_now)))]]
                 ELSE [exc |-> "AttributeError", self |-> Self],
                 "select_show_67")

\* self.history.append(selection) (line 67)
select_show_67 ==
    /\ pc = "select_show_67"
    /\ Statement(py_append(Self, "history", selection_now), "save_open")

\* line 74 of undo_last: the history is empty (return None) or not
undo_last_tests(self) ==
    IF ~Truthy(self.history)
    THEN [exc |-> "none", ret |-> PyNone, go |-> FALSE, next |-> "menu"]
    ELSE [exc |-> "none", ret |-> PyNone, go |-> TRUE, next |-> "undo_last_77"]

undo_last_body ==
    /\ pc = "menu"
    /\ Enter("undo_last", NoArg, undo_last_tests(Self))

\* last_selection = self.history.pop() (line 77)
undo_last_77 ==
    /\ pc = "undo_last_77"
    /\ Statement(IF history.t = "list"
                 THEN [exc |-> "none",
                       self |-> [Self EXCEPT !.history =
                                    PyList(SubSeq(@.v, 1, Len(@.v) - 1))]]
                 ELSE [exc |-> IF history.t = "dict" THEN "TypeError" ELSE "AttributeError",
                       self |-> Self],
                 "undo_last_93")

\* last_selection of the undo_last that is running
last_selection_now == last.before.history.v[Len(last.before.history.v)]

\* lines 78-93 of undo_last: the place of the show in the pool is worked out
\* and the show is inserted there
undo_last_insert(self, last_selection) ==
    LET show_to_restore == last_selection.v["show"]
        found == py_index(self.original_order, show_to_restore)
        original_index == IF found.exc = "ValueError"
                          THEN py_len(self.original_order) ELSE found.i
        it == py_iter(self.remaining_shows)
        scan == insert_scan(it.items, 0, self.original_order, original_index)
        raises(exc) == [exc |-> exc, self |-> self]
    IN  IF subscript_show(last_selection) # "none"
        THEN raises(subscript_show(last_selection))
        ELSE IF found.exc \notin {"none", "ValueError"} THEN raises(found.exc)
        ELSE IF ~it.ok THEN raises("TypeError")
        ELSE IF scan.exc # "none" THEN raises(scan.exc)
        ELSE IF self.remaining_shows.t # "list" THEN raises("AttributeError")
        ELSE [exc |-> "none",
              self |-> [self EXCEPT !.remaining_shows =
                            PyList(InsertAt(@.v, scan.i, show_to_restore))]]

undo_last_93 ==
    /\ pc = "undo_last_93"
    /\ Statement(undo_last_insert(Self, last_selection_now), "undo_last_94")

\* self.watched_shows.remove(last_selection) (line 94)
undo_last_94 ==
    /\ pc = "undo_last_94"
    /\ Statement(IF watched_shows.t # "list"
                 THEN [exc |-> "AttributeError", self |-> Self]
                 ELSE IF FirstEq(watched_shows.v, last_selection_now) = 0
                 THEN [exc |-> "ValueError", self |-> Self]
                 ELSE [exc |-> "none",
                       self |-> [Self EXCEPT !.watched_shows =
                                    PyList(RemoveAt(@.v, FirstEq(@.v, last_selection_now)))]],
                 "save_open")

\* open(SAVE_FILE, "w") (line 112)
save_open ==
    /\ pc = "save_open"
    /\ file' = TextFile("")
    /\ pc' = "save_dump"
    /\ SameEngine
    /\ UNCHANGED <<backup, shows, outcome, display, last, prev>>

\* json.dump(...) and the end of the with block (lines 113-122)
save_dump ==
    /\ pc = "save_dump"
    /\ file' = save_progress_call(Self)
    /\ pc' = "return"
    /\ SameEngine
    /\ UNCHANGED <<backup, shows, outcome, display, last, prev>>

\* return True (line 51), return selection (line 70), return last_selection (line 97)
return ==
    /\ pc = "return"
    /\ last' = [last EXCEPT !.ret = CASE last.op = "add_show" -> PyBool(TRUE)
                                      [] last.op = "select_show" -> selection_now
                                      [] last.op = "undo_last" -> last_selection_now]
    /\ pc' = "menu"
    /\ SameEngine
    /\ UNCHANGED <<file, backup, shows, outcome, display, prev>>

\* what the file holds when json.dump is interrupted and the with block closes
\* it: nothing, or the part of the document written so far
Interrupted(self) == {TextFile(""), PartialFile(json_dump(SaveDict(self)))}

\* where the menu loop can be when Ctrl-C arrives
Running ==
    {"menu", "add_show_47", "add_show_48", "add_show_49",
     "select_show_65", "select_show_66", "select_show_67",
     "undo_last_77", "undo_last_93", "undo_last_94",
     "save_open", "save_dump", "return"}

\* Ctrl-C (lines 393-396)
KeyboardInterrupt ==
    /\ pc \in Running
    /\ file' \in (IF pc = "save_dump" THEN Interrupted(Self) ELSE {file})
    /\ pc' = "aborted"
    /\ SameEngine
    /\ UNCHANGED <<backup, shows, outcome, display, last, prev>>

AbortSeeds == {<<"A", "a">>, <<"B">>}

InitAbort == Start({NoFile}, {NoFile}, AbortSeeds)

NextAbort ==
    \/ ShowSelector
    \/ add_show_body
    \/ add_show_47
    \/ add_show_48
    \/ add_show_49
    \/ select_show_body
    \/ select_show_65
    \/ select_show_66
    \/ select_show_67
    \/ undo_last_body
    \/ undo_last_77
    \/ undo_last_93
    \/ undo_last_94
    \/ save_open
    \/ save_dump
    \/ return
    \/ KeyboardInterrupt

SpecAbort == InitAbort /\ [][NextAbort]_vars

(***************************************************************************)
(* The menu loop with what it displays (lines 325-391).  Every iteration   *)
(* reads progress = selector.get_progress() first (line 328), then runs    *)
(* the branch of the choice.                                               *)
(***************************************************************************)
\* one iteration: g is the get_progress() of line 328, r the command of the
\* branch, bar and total what the branch printed
Iteration(op, arg, g, r, bar, total) ==
    /\ SetEngine(r.self)
    /\ file' = IF r.saved THEN save_progress_call(r.self) ELSE file
    /\ pc' = IF r.exc = "none" THEN "menu" ELSE "crashed"
    /\ display' = [progress |-> g.ret, bar |-> bar, total |-> total]
    /\ Record(op, arg, r.exc, r.ret)
    /\ UNCHANGED <<backup, shows, outcome>>

\* the command of a branch, not reached when line 328 raised
AfterProgress(g, r) == IF g.exc = "none" THEN r ELSE Outcome(g.exc, PyNone, g.self, FALSE)

\* choice "1" (lines 330-341): the bar shows the progress read at line 328
menu_select ==
    /\ pc = "menu"
    /\ \E pick \in 1..(IF py_len(remaining_shows) > 0 THEN py_len(remaining_shows) ELSE 1),
          timestamp \in Timestamps :
        \E g \in {get_progress_call(Self)} :
            \E r \in {AfterProgress(g, select_show_call(g.self, pick, timestamp))} :
                Iteration("select_show",
                          [NoArg EXCEPT !.pick = pick, !.timestamp = timestamp], g, r,
                          IF r.exc = "none" /\ Truthy(r.ret)
                          THEN g.ret.v["percentage"] ELSE PyNone,
                          PyNone)

\* choice "2" (lines 343-352): the bar shows a get_progress() made after undo_last
menu_undo ==
    /\ pc = "menu"
    /\ \E g \in {get_progress_call(Self)} :
        \E r \in {AfterProgress(g, undo_last_call(g.self))} :
            \E g2 \in {get_progress_call(r.self)} :
                Iteration("undo_last", NoArg, g,
                          IF r.exc = "none" /\ Truthy(r.ret) /\ g2.exc # "none"
                          THEN [r EXCEPT !.exc = g2.exc] ELSE r,
                          IF r.exc = "none" /\ Truthy(r.ret) /\ g2.exc = "none"
                          THEN g2.ret.v["percentage"] ELSE PyNone,
                          PyNone)

\* the for loop of lines 359-360 over a watched_shows that is not empty: the
\* exception that ends it, "none" if every line is printed.  Line 360 reads
\* show['show'], then show['timestamp'][:10]; a str and a list can be sliced, a
\* dict raises TypeError (a slice is unhashable), any other value has no [].
print_watched(watched) ==
    LET it == py_iter(watched)
        line_360(show) ==
            IF subscript_show(show) # "none" THEN subscript_show(show)
            ELSE IF "timestamp" \notin DOMAIN show.v THEN "KeyError"
            ELSE IF show.v["timestamp"].t \in {"str", "list"} THEN "none"
            ELSE "TypeError"
        stops == {i \in DOMAIN it.items : line_360(it.items[i]) # "none"}
    IN  IF ~it.ok THEN "TypeError"
        ELSE IF stops = {} THEN "none"
        ELSE line_360(it.items[CHOOSE i \in stops : \A j \in stops : i <= j])

\* choice "3" (lines 354-360): "No shows watched yet." or the watched list
menu_watched ==
    /\ pc = "menu"
    /\ \E g \in {get_progress_call(Self)} :
        \E r \in {AfterProgress(g, Outcome(IF ~Truthy(g.self.watched_shows) THEN "none"
                                           ELSE print_watched(g.self.watched_shows),
                                           PyNone, g.self, FALSE))} :
            Iteration("view_watched", NoArg, g, r, PyNone, PyNone)

\* choice "4" (lines 362-368): "All shows watched!" or the pool; whatever has
\* the len() of line 103 can be iterated, and any value can be printed
menu_remaining ==
    /\ pc = "menu"
    /\ \E g \in {get_progress_call(Self)} :
        \E r \in {AfterProgress(g, Outcome(IF ~Truthy(g.self.remaining_shows)
                                              \/ py_iter(g.self.remaining_shows).ok
                                           THEN "none" ELSE "TypeError",
                                           PyNone, g.self, FALSE))} :
            Iteration("view_remaining", NoArg, g, r, PyNone, PyNone)

\* any other text (lines 390-391): "Invalid choice!"
menu_invalid ==
    /\ pc = "menu"
    /\ \E g \in {get_progress_call(Self)} :
        Iteration("invalid_choice", NoArg, g,
                  AfterProgress(g, Outcome("none", PyNone, g.self, FALSE)), PyNone, PyNone)

\* choice "5" (lines 370-381): input().strip(), add_show, then total_shows printed
menu_add ==
    /\ pc = "menu"
    /\ \E name \in AddNames :
        \E g \in {get_progress_call(Self)} :
            \E r \in {AfterProgress(g, add_show_call(g.self, strip(name)))} :
                /\ r.saved => r.self.total_shows <= MaxShows
                /\ Iteration("add_show", [NoArg EXCEPT !.name = name], g, r,
                             PyNone,
                             IF r.exc = "none" THEN PyInt(r.self.total_shows) ELSE PyNone)

\* choice "6" (lines 383-388): the final stats come from line 328, then break
menu_exit ==
    /\ pc = "menu"
    /\ \E g \in {get_progress_call(Self)} :
        /\ SetEngine(g.self)
        /\ pc' = IF g.exc = "none" THEN "exited" ELSE "crashed"
        /\ display' = [progress |-> g.ret, bar |-> PyNone, total |-> PyNone]
        /\ UNCHANGED <<file, backup, shows, outcome, last, prev>>

MenuSeeds == {<<>>, <<"a">>, <<"A", "B">>}

InitMenu == Start({NoFile}, {NoFile}, MenuSeeds)

NextMenu ==
    \/ ShowSelector
    \/ menu_select
    \/ menu_undo
    \/ menu_watched
    \/ menu_remaining
    \/ menu_invalid
    \/ menu_add
    \/ menu_exit

SpecMenu == InitMenu /\ [][NextMenu]_vars

\* the menu loop on an engine built over the save files of RunFiles and two more
\* that fail the type check of lines 139-145 and are adopted from the backup
\* they are renamed to: one with "watched": null, one whose watched list holds
\* a str
SpecMenuRun ==
    /\ Start(RunFiles \cup
                {JsonFile(ObjectOf(<<JArray(<<>>)>>, <<JArray(<<>>)>>, <<JNull>>,
                                   <<JArray(<<>>)>>)),
                 JsonFile(ObjectOf(<<JString("AB")>>, <<JStrings(<<"A">>)>>,
                                   <<JStrings(<<"A">>)>>, <<JArray(<<>>)>>))},
             {NoFile}, RunSeeds)
    /\ [][NextMenu]_vars

(***************************************************************************)
(* Vocabulary of the properties.                                           *)
(***************************************************************************)
IsList(x) == x.t = "list"
Elements(x) == {x.v[i] : i \in DOMAIN x.v}
Distinct(q) == \A i, j \in DOMAIN q : i # j => q[i] # q[j]
\* the items the records of a watched log name
ItemsOf(log) == [i \in DOMAIN log.v |-> log.v[i].v["show"]]
ItemSetOf(log) == {ItemsOf(log)[i] : i \in DOMAIN log.v}
Commands == {"add_show", "select_show", "undo_last"}
\* the last call was a command that returned
Returned(op) == pc = "menu" /\ last.op = op /\ last.exc = "none"
\* the save file holds a document with exactly the engine's four sequences
FileHolds(self) ==
    /\ file.t = "json"
    /\ file.v.t = "object"
    /\ DOMAIN file.v.v = {"original_order", "remaining", "watched", "history"}
    /\ json_value(file.v.v["original_order"]) = self.original_order
    /\ json_value(file.v.v["remaining"]) = self.remaining_shows
    /\ json_value(file.v.v["watched"]) = self.watched_shows
    /\ json_value(file.v.v["history"]) = self.history

(***************************************************************************)
(* C1.  From an engine built with no save file from a seed list without    *)
(* repeats, after every add_show / select_show / undo_last: the items of   *)
(* remaining_shows and the items recorded in watched_shows together are    *)
(* exactly the items of original_order, the two share no item, and no item *)
(* occurs twice in any of the three.                                       *)
(***************************************************************************)
C1_PoolAndLogPartitionOriginal ==
    pc # "start" =>
        /\ pc = "menu"
        /\ IsList(original_order) /\ IsList(remaining_shows) /\ IsList(watched_shows)
        /\ Elements(remaining_shows) \cup ItemSetOf(watched_shows) = Elements(original_order)
        /\ Elements(remaining_shows) \cap ItemSetOf(watched_shows) = {}
        /\ Distinct(original_order.v)
        /\ Distinct(remaining_shows.v)
        /\ Distinct(ItemsOf(watched_shows))

\* an undo that restored an item, with items both watched and remaining and
\* an item added after construction
C1_Witness ==
    /\ Returned("undo_last") /\ last.ret # PyNone
    /\ Len(watched_shows.v) >= 1
    /\ Len(remaining_shows.v) >= 2
    /\ Len(original_order.v) > Len(shows)

(***************************************************************************)
(* C2.  select_show directly followed by undo_last leaves remaining_shows  *)
(* with the elements and the order it had before the selection, and        *)
(* watched_shows and history with the lengths they had, whichever element  *)
(* was picked.                                                             *)
(***************************************************************************)
C2_UndoRestoresPool ==
    (Returned("undo_last") /\ prev.op = "select_show" /\ prev.before # NoEngine) =>
        /\ remaining_shows = prev.before.remaining_shows
        /\ Len(watched_shows.v) = Len(prev.before.watched_shows.v)
        /\ Len(history.v) = Len(prev.before.history.v)

\* such an undo, of an item that does not belong at the end of the pool
C2_Witness ==
    /\ Returned("undo_last") /\ prev.op = "select_show" /\ prev.before # NoEngine
    /\ last.ret # PyNone
    /\ Len(remaining_shows.v) >= 3
    /\ last.ret.v["show"] = remaining_shows.v[2]

(***************************************************************************)
(* C7.  When a successful add_show, select_show or undo_last returns, the  *)
(* save file holds exactly the engine's original_order, remaining_shows,   *)
(* watched_shows and history: a command never returns with the engine      *)
(* changed and the file still holding the older state.                     *)
(***************************************************************************)
C7_SavedBeforeReturn ==
    (pc = "menu" /\ last.op \in Commands
       /\ (Self # last.before \/ last.ret \notin {PyNone, PyBool(FALSE)})) =>
        FileHolds(Self)

\* a selection has returned: the pool shrank and the file was rewritten
C7_Witness ==
    /\ Returned("select_show") /\ last.ret # PyNone
    /\ Self # last.before
    /\ file # last.file_before
    /\ remaining_shows # original_order

(***************************************************************************)
(* C3.  Whatever the save file holds, construction returns normally: no    *)
(* error escapes load_progress, and the load ends in Adopt, Adopt from     *)
(* backup, Data-Recovery or Full-Reset.                                    *)
(***************************************************************************)
C3_ConstructionAlwaysReturns ==
    last.op = "__init__" =>
        /\ last.exc = "none"
        /\ pc = "menu"
        /\ outcome \in {"Adopt", "AdoptFromBackup", "DataRecovery", "FullReset"}

(***************************************************************************)
(* C4.  The backup is adopted only if it passes both checks of the primary *)
(* file, so after an adoption from backup original_order, remaining_shows, *)
(* watched_shows and history are all lists.                                *)
(***************************************************************************)
C4_BackupAdoptedOnlyIfLists ==
    (last.op = "__init__" /\ outcome = "AdoptFromBackup") =>
        /\ IsList(original_order)
        /\ IsList(remaining_shows)
        /\ IsList(watched_shows)
        /\ IsList(history)

(***************************************************************************)
(* C5.  When the save file fails Parse or Validate and no backup is        *)
(* adopted, Data-Recovery leaves original_order equal to the first-seen,   *)
(* case-insensitive deduplication of salvaged remaining items, then items  *)
(* of salvaged watched records, then the seed list (of the seed list alone *)
(* when the file is no JSON at all), and the corrupted content is at the   *)
(* backup path.                                                            *)
(***************************************************************************)
\* what the corrupted file held under key, as Data-Recovery salvages it
SalvagedUnder(key) ==
    LET f == last.file_before
    IN  IF f.t = "json" /\ f.v.t = "object" /\ key \in DOMAIN f.v.v
        THEN json_value(f.v.v[key])
        ELSE PyList(<<>>)

\* salvaged remaining items, items of salvaged watched records, seed list
MergeInput ==
    LET w == SalvagedUnder("watched")
    IN  SalvagedUnder("remaining").v
            \o (IF IsList(w) THEN ItemsOf(w) ELSE <<>>)
            \o [i \in DOMAIN shows |-> PyStr(shows[i])]

\* the position in q of the first name equal to x but for case
FirstSeen(q, x) ==
    CHOOSE k \in DOMAIN q :
        /\ lower(q[k].v) = lower(x.v)
        /\ \A j \in 1..(k - 1) : lower(q[j].v) # lower(x.v)

\* out keeps, in order, the first occurrence in q of every name, case ignored
IsFirstSeenDedup(out, q) ==
    /\ \A k \in DOMAIN q : \E i \in DOMAIN out : lower(out[i].v) = lower(q[k].v)
    /\ \A i \in DOMAIN out :
        /\ \E k \in DOMAIN q : lower(q[k].v) = lower(out[i].v)
        /\ out[i] = q[FirstSeen(q, out[i])]
    /\ \A i, j \in DOMAIN out : i < j => FirstSeen(q, out[i]) < FirstSeen(q, out[j])

C5_RecoveredOrderIsDedupMerge ==
    (last.op = "__init__" /\ outcome = "DataRecovery") =>
        /\ IsList(original_order)
        /\ IsFirstSeenDedup(original_order.v, MergeInput)
        /\ last.file_before.t = "text" =>
              IsFirstSeenDedup(original_order.v, [i \in DOMAIN shows |-> PyStr(shows[i])])
        /\ backup = last.file_before

\* a recovery that salvaged remaining items and a watched record, met names
\* that differ only in case, and replaced an older backup
C5_Witness ==
    /\ last.op = "__init__" /\ outcome = "DataRecovery"
    /\ Len(SalvagedUnder("remaining").v) >= 2
    /\ IsList(SalvagedUnder("watched")) /\ Len(SalvagedUnder("watched").v) >= 1
    /\ Len(shows) >= 2
    /\ Len(original_order.v) < Len(MergeInput)
    /\ \E i \in DOMAIN shows : /\ PyStr(shows[i]) \notin Elements(original_order)
                               /\ \E k \in DOMAIN original_order.v :
                                     lower(original_order.v[k].v) = lower(shows[i])
    /\ \E i \in DOMAIN shows : PyStr(shows[i]) \in Elements(original_order)
    /\ last.backup_before # NoFile
    /\ backup # last.backup_before

(***************************************************************************)
(* C6.  Round trip: an engine constructed on the file that save_progress   *)
(* wrote for an engine state takes the Parse/Validate/Adopt path, whatever *)
(* its seed list, and has original_order, remaining_shows, watched_shows   *)
(* and history identical to the saved ones, with total_shows the length of *)
(* original_order.                                                         *)
(***************************************************************************)
C6_SaveLoadRoundTrip ==
    (last.op = "__init__" /\ last.before # NoEngine
       /\ last.file_before = save_progress_call(last.before)) =>
        /\ pc = "menu"
        /\ outcome = "Adopt"
        /\ original_order = last.before.original_order
        /\ remaining_shows = last.before.remaining_shows
        /\ watched_shows = last.before.watched_shows
        /\ history = last.before.history
        /\ total_shows = Len(original_order.v)

\* a second construction, with another seed list, on a saved state that has
\* watched records and a pool shorter than the original order
C6_Witness ==
    /\ last.op = "__init__" /\ last.before # NoEngine
    /\ last.file_before = save_progress_call(last.before)
    /\ outcome = "Adopt"
    /\ Len(watched_shows.v) >= 1
    /\ Len(remaining_shows.v) >= 1
    /\ Len(original_order.v) = MaxShows
    /\ [i \in DOMAIN shows |-> PyStr(shows[i])] # original_order.v
    /\ shows # <<>>

(***************************************************************************)
(* C8.  Ctrl-C at any point of the run leaves the save file holding a      *)
(* complete state written by a completed save_progress (or no file, when   *)
(* none has completed), never an empty or partly written document.         *)
(***************************************************************************)
C8_AbortLeavesCompleteFile ==
    pc = "aborted" => file.t \in {"absent", "json"}

(***************************************************************************)
(* C9.  watched_shows and history hold the same records in the same order  *)
(* after construction (no file, a file written by save_progress, or a      *)
(* corrupted file taken through Backup-Recovery, Data-Recovery or          *)
(* Full-Reset) and after every later add_show / select_show / undo_last.   *)
(***************************************************************************)
C9_LogMirrorsHistory ==
    pc = "menu" => watched_shows = history

(***************************************************************************)
(* C10.  In the Data-Recovery terminal state the items of remaining_shows  *)
(* and the items of watched_shows together are exactly the items of        *)
(* original_order.                                                         *)
(***************************************************************************)
C10_RecoveredStateIsPartition ==
    (last.op = "__init__" /\ outcome = "DataRecovery") =>
        Elements(remaining_shows) \cup ItemSetOf(watched_shows) = Elements(original_order)

(***************************************************************************)
(* C11.  add_show(name) returns False and changes neither the engine nor   *)
(* the file exactly when the trimmed name is empty or equals an item of    *)
(* original_order but for case; otherwise it returns True, appends the     *)
(* trimmed name to original_order and to remaining_shows, and total_shows  *)
(* grows by one.                                                           *)
(***************************************************************************)
C11_AddShowRejectsOrAppends ==
    last.op = "add_show" =>
        LET b == last.before
            name == strip(last.arg.name)
            rejected == \/ name = ""
                        \/ \E i \in DOMAIN b.original_order.v :
                              lower(b.original_order.v[i].v) = lower(name)
        IN  /\ last.exc = "none"
            /\ rejected =>
                  /\ last.ret = PyBool(FALSE)
                  /\ Self = b
                  /\ file = last.file_before
            /\ ~rejected =>
                  /\ last.ret = PyBool(TRUE)
                  /\ original_order.v = Append(b.original_order.v, PyStr(name))
                  /\ remaining_shows.v = Append(b.remaining_shows.v, PyStr(name))
                  /\ watched_shows = b.watched_shows
                  /\ history = b.history
                  /\ total_shows = b.total_shows + 1

\* a name refused because it differs only in case from an item, after an
\* earlier add_show had succeeded
C11_Witness ==
    /\ Returned("add_show") /\ last.ret = PyBool(FALSE)
    /\ strip(last.arg.name) # ""
    /\ PyStr(strip(last.arg.name)) \notin Elements(original_order)
    /\ Len(original_order.v) > Len(shows)

(***************************************************************************)
(* C12.  select_show on an empty remaining_shows returns None and leaves   *)
(* original_order, remaining_shows, watched_shows, history and the file    *)
(* as they were; so does the select_show that follows the selection of     *)
(* the last remaining item.                                                *)
(***************************************************************************)
C12_SelectOnEmptyPoolIsNoOp ==
    (last.op = "select_show" /\ ~Truthy(last.before.remaining_shows)) =>
        /\ last.exc = "none"
        /\ last.ret = PyNone
        /\ Self = last.before
        /\ file = last.file_before

\* every item was selected, at least two of them, and select_show was
\* called once more
C12_Witness ==
    /\ Returned("select_show") /\ last.ret = PyNone
    /\ remaining_shows = PyList(<<>>)
    /\ Len(watched_shows.v) >= 2
    /\ Len(watched_shows.v) = Len(original_order.v)
    /\ prev.op = "select_show" /\ prev.before # NoEngine

(***************************************************************************)
(* C15.  remaining_shows is sorted by strictly increasing position in      *)
(* original_order after every add_show / select_show / undo_last from an   *)
(* engine built with no save file: undo_last inserts in rank order.        *)
(***************************************************************************)
C15_PoolSortedByOriginalRank ==
    pc = "menu" =>
        /\ \A i \in DOMAIN remaining_shows.v :
              FirstEq(original_order.v, remaining_shows.v[i]) # 0
        /\ \A i, j \in DOMAIN remaining_shows.v :
              i < j => FirstEq(original_order.v, remaining_shows.v[i])
                          < FirstEq(original_order.v, remaining_shows.v[j])

\* an undo that put its item back at the head of a pool of two or more
C15_Witness ==
    /\ Returned("undo_last") /\ last.ret # PyNone
    /\ Len(remaining_shows.v) >= 2
    /\ remaining_shows.v[1] = last.ret.v["show"]
    /\ Len(last.before.remaining_shows.v) >= 1

(***************************************************************************)
(* C16.  Undo is last in, first out: select_show appends its record at the *)
(* end of history and of watched_shows; undo_last on a non-empty history   *)
(* returns the last record of both, which is in neither afterwards, and    *)
(* leaves the earlier records of both in place and in order; add_show      *)
(* touches neither.                                                        *)
(***************************************************************************)
C16_UndoIsLastInFirstOut ==
    LET h == last.before.history.v
        w == last.before.watched_shows.v
    IN  /\ (last.op = "select_show" /\ last.ret # PyNone) =>
              /\ history.v = Append(h, last.ret)
              /\ watched_shows.v = Append(w, last.ret)
        /\ last.op = "add_show" =>
              /\ history.v = h
              /\ watched_shows.v = w
        /\ (last.op = "undo_last" /\ Truthy(last.before.history)) =>
              /\ last.exc = "none"
              /\ last.ret = h[Len(h)]
              /\ last.ret = w[Len(w)]
              /\ history.v = SubSeq(h, 1, Len(h) - 1)
              /\ watched_shows.v = SubSeq(w, 1, Len(w) - 1)
              /\ last.ret \notin Elements(history)
              /\ last.ret \notin Elements(watched_shows)

\* an undo with two earlier selections still in the log, two of the three
\* records carrying the same timestamp
C16_Witness ==
    /\ Returned("undo_last") /\ last.ret # PyNone
    /\ Len(history.v) >= 2
    /\ \E i \in DOMAIN history.v :
          history.v[i].v["timestamp"] = last.ret.v["timestamp"]

(***************************************************************************)
(* C14.  undo_last never stops partway, whatever load path built the       *)
(* engine: it returns None with the engine and the file unchanged, or it   *)
(* returns the record with every step done and the result saved.  It never *)
(* raises.                                                                 *)
(***************************************************************************)
C14_UndoNeverStopsPartway ==
    last.op = "undo_last" =>
        /\ last.exc = "none"
        /\ last.ret = PyNone => (Self = last.before /\ file = last.file_before)
        /\ last.ret # PyNone => FileHolds(Self)

(***************************************************************************)
(* C17.  Full-Reset is entered only when Data-Recovery raised, and it ends *)
(* with original_order and remaining_shows equal to the seed list,         *)
(* watched_shows and history empty, total_shows the length of the seed     *)
(* list, and the save file holding exactly that state.                     *)
(***************************************************************************)
\* the names Data-Recovery would put through lower(): salvaged remaining
\* items and the shows of salvaged watched records
SalvagedNames ==
    SalvagedUnder("remaining").v \o shows_of(SalvagedUnder("watched")).items

\* the document that failed makes lines 187-200 raise: it is a non-empty value
\* with no get(), or what it holds under "remaining" is no list, or under
\* "watched" no collection of records with a "show", or a name is no str
RecoveryRaises ==
    LET f == last.file_before
    IN  /\ f.t = "json"
        /\ \/ f.v.t # "object" /\ Truthy(json_value(f.v))
           \/ /\ f.v.t = "object"
              /\ \/ ~IsList(SalvagedUnder("remaining"))
                 \/ ~shows_of(SalvagedUnder("watched")).ok
                 \/ \E i \in DOMAIN SalvagedNames : SalvagedNames[i].t # "str"

C17_FullResetIsSeedState ==
    (last.op = "__init__" /\ outcome = "FullReset") =>
        /\ RecoveryRaises
        /\ original_order = StrList(shows)
        /\ remaining_shows = StrList(shows)
        /\ watched_shows = PyList(<<>>)
        /\ history = PyList(<<>>)
        /\ total_shows = Len(shows)
        /\ FileHolds(Self)

\* a reset after a failed recovery that had a list of remaining items and a
\* history to salvage, with a seed list of two and an older backup on disk
C17_Witness ==
    /\ last.op = "__init__" /\ outcome = "FullReset"
    /\ last.file_before.v.t = "object"
    /\ IsList(SalvagedUnder("remaining")) /\ Len(SalvagedUnder("remaining").v) >= 1
    /\ IsList(SalvagedUnder("history")) /\ Len(SalvagedUnder("history").v) >= 1
    /\ Len(shows) = 2
    /\ last.backup_before # NoFile

(***************************************************************************)
(* C18.  The backup file changes only when the load detects corruption: a  *)
(* load that adopts the save file leaves both files as they were; a load   *)
(* whose Parse or Validate fails leaves the failed content at the backup   *)
(* path, whatever was there, and a backup that is adopted is that failed   *)
(* content, not the older backup.                                          *)
(***************************************************************************)
C18_BackupIsFailedContent ==
    last.op = "__init__" =>
        /\ backup # last.backup_before =>
              outcome \in {"AdoptFromBackup", "DataRecovery", "FullReset"}
        /\ outcome = "Adopt" =>
              (file = last.file_before /\ backup = last.backup_before)
        /\ outcome \in {"AdoptFromBackup", "DataRecovery", "FullReset"} =>
              backup = last.file_before
        /\ outcome = "AdoptFromBackup" =>
              /\ last.file_before.t = "json"
              /\ Self = adopt(json_value(last.file_before.v))

\* a backup adopted while an older backup that save_progress once wrote was on
\* disk: the older one is replaced, not read
C18_Witness ==
    /\ last.op = "__init__" /\ outcome = "AdoptFromBackup"
    /\ last.backup_before \in BackupFiles \ {NoFile}
    /\ last.backup_before # last.file_before
    /\ backup # last.backup_before

(***************************************************************************)
(* C19.  When construction finds a save file and returns, the save file    *)
(* exists and holds exactly the engine's original_order, remaining_shows,  *)
(* watched_shows and history, whichever way the load ended.                *)
(***************************************************************************)
C19_FileHoldsStateAfterLoad ==
    (last.op = "__init__" /\ exists(last.file_before) /\ last.exc = "none") =>
        FileHolds(Self)

(***************************************************************************)
(* C13.  get_progress is a pure query in every state the program reaches:  *)
(* the call of line 328 returns and does not raise; it reports watched =   *)
(* len(watched_shows), remaining = len(remaining_shows) and total =        *)
(* len(original_order), with percentage 0.0 when original_order is empty;  *)
(* and an iteration of the menu loop that calls nothing else (choice "3",  *)
(* "4" or an invalid one) leaves the engine and both files as they were.   *)
(***************************************************************************)
C13_GetProgressIsPureQuery ==
    last.op \in {"view_watched", "view_remaining", "invalid_choice"} =>
        /\ display.progress # PyNone
        /\ Self = last.before
        /\ file = last.file_before /\ backup = last.backup_before
        /\ display.progress.v["watched"] = PyInt(py_len(watched_shows))
        /\ display.progress.v["remaining"] = PyInt(py_len(remaining_shows))
        /\ display.progress.v["total"] = PyInt(py_len(original_order))
        /\ py_len(original_order) = 0 =>
              display.progress.v["percentage"] = PyFloat(0)

(***************************************************************************)
(* C20.  After a select, an undo or an add that changed the engine, the    *)
(* progress the menu loop displays is the progress after the command: the  *)
(* percentage of the bar is the one get_progress returns now, and the      *)
(* total printed is the total now.                                         *)
(***************************************************************************)
C20_DisplayedProgressIsFresh ==
    (pc = "menu" /\ last.op \in Commands /\ Self # last.before) =>
        /\ display.bar # PyNone =>
              display.bar = get_progress_call(Self).ret.v["percentage"]
        /\ display.total # PyNone => display.total = PyInt(total_shows)

====
